---- MODULE Spec2Model ----
(***************************************************************************)
(* PacketRaven: ingestion of balloon telemetry into per-callsign tracks,   *)
(* duplicate classification, the APRS frame decoder and the per-track      *)
(* prediction refresh of one polling tick.                                 *)
(*                                                                         *)
(* Numbers.  Times are whole seconds.  Longitude, latitude and altitude    *)
(* are integers counting steps of 5e-5 (degrees or metres), so that the    *)
(* 1e-4 tolerance of approx_equal(.., .., 4) is two steps: values 0 and 1  *)
(* are approximately equal, 1 and 2 are, 0 and 2 are not.                  *)
(* Option<T> is a sequence: None is << >>, Some(v) is << v >>.             *)
(***************************************************************************)
EXTENDS Integers, Sequences, FiniteSets, TLC

VARIABLES
    frontend,      \* "tui" (tui/app.rs on_tick) or "cli" (main.rs loop)
    start_time,    \* configuration.time.start : Option<time>
    end_time,      \* configuration.time.end   : Option<time>
    prediction_configuration,  \* configuration.prediction : Option<Single>
    prediction_file,  \* the prediction output file: None until it is written
    tracks,        \* Vec<BalloonTrack>
    log_messages,  \* messages the last tick handed to the log
    results,       \* per record of the last batch: what the loop did with it
    counts,        \* duplicates, time-lagged duplicates, skipped of that batch
    polled,        \* per connection of the last tick: outcome of its poll
    predicted,     \* per track of the last tick: outcome of its prediction
    running,       \* FALSE once the process has panicked or exited
    ticks,         \* number of ticks run so far
    aprs_file,     \* the AprsTextFile connection: its file and callsign filter
    read_result,   \* what read_aprs_from_file returned for that file
    tawhiri_query, \* a TawhiriQuery
    service,       \* what the prediction service answers to its requests
    query_result,  \* what retrieve_prediction returned for that query
    flight_track,  \* a BalloonTrack of which the flight state is asked
    flight_report, \* ascending, descending, falling, time to ground of it
    clock,         \* chrono::Local::now(), in seconds
    limited,       \* the AprsFiQuery and the SondeHubQuery connection
    sent_at,       \* per connection: the times of the polls that sent requests
    last_poll,     \* the last poll of one of them and what it returned
    app_loop,      \* run_app: where the loop of the terminal stands
    events,        \* key presses the terminal holds for crossterm::event::read
    activations    \* the calls of on_tick that have not returned

vars == <<frontend, start_time, end_time, prediction_configuration,
          prediction_file, tracks, log_messages,
          results, counts, polled, predicted, running, ticks,
          aprs_file, read_result, tawhiri_query, service, query_result,
          flight_track, flight_report, clock, limited, sent_at, last_poll,
          app_loop, events, activations>>

tick_vars == <<frontend, start_time, end_time, prediction_configuration,
               prediction_file, tracks, log_messages, results, counts, polled,
               predicted, running, ticks>>
decode_vars == <<aprs_file, read_result>>
query_vars == <<tawhiri_query, service, query_result>>
flight_vars == <<flight_track, flight_report>>
limiter_vars == <<clock, limited, sent_at, last_poll>>
loop_vars == <<app_loop, events, activations>>

NoQuery == [kind |-> "NoQuery"]
NotAsked == [kind |-> "NotAsked"]
NoTrack == [kind |-> "NoTrack"]
NotReported == [kind |-> "NotReported"]
NotPolled == [connection |-> "None", instant |-> 0, result |-> "None", sent |-> 0]

QueryIdle == tawhiri_query = NoQuery /\ service = << >> /\ query_result = NotAsked
FlightIdle == flight_track = NoTrack /\ flight_report = NotReported
LimiterIdle ==
    clock = 0 /\ limited = << >> /\ sent_at = << >> /\ last_poll = NotPolled
NoLoop == [pc |-> "none", connections |-> 0, should_quit |-> FALSE,
           since_tick |-> 0, tab |-> 0, started |-> << >>]
LoopIdle == app_loop = NoLoop /\ events = << >> /\ activations = << >>

----------------------------------------------------------------------------
(* Bounds of the model.                                                    *)

MaxTime == 2
MaxCoord == 2
MaxTicks == 2
MaxLines == 2
MaxTracks == 2
HighAltitude == 100000

----------------------------------------------------------------------------
(* Option and sequence helpers.                                            *)

None == << >>
Some(v) == << v >>
IsSome(o) == o # << >>
Unwrap(o) == o[1]

Abs(n) == IF n < 0 THEN -n ELSE n

RECURSIVE Pow(_, _)
Pow(b, e) == IF e = 0 THEN 1 ELSE b * Pow(b, e - 1)

Last(s) == s[Len(s)]

\* let x = e; F(x): e is evaluated once, before F
Bind(e, F(_)) == CHOOSE result \in {F(x) : x \in {e}} : TRUE

\* a call returns a value, returns an error, or panics
ParseOk(value) == [kind |-> "Ok", value |-> value, error |-> "None"]
ParseErr(error) == [kind |-> "Err", value |-> << >>, error |-> error]
Panic == [kind |-> "Panic", value |-> << >>, error |-> "None"]

\* Result::unwrap
unwrap(result) == IF result.kind = "Err" THEN Panic ELSE result

----------------------------------------------------------------------------
(* utilities.rs, location/mod.rs: the equality relations.                  *)

\* (a - b).abs() < 10^-decimal_precision, with a and b in steps of 5e-5
approx_equal(a, b, decimal_precision) ==
    Abs(a - b) * Pow(10, decimal_precision) < 20000

\* impl PartialEq for Location
Location_eq(self, other) ==
    /\ self.time = other.time
    /\ approx_equal(self.x, other.x, 4)
    /\ approx_equal(self.y, other.y, 4)
    /\ IF IsSome(self.altitude)
       THEN IF IsSome(other.altitude)
            THEN approx_equal(Unwrap(self.altitude), Unwrap(other.altitude), 4)
            ELSE FALSE
       ELSE ~IsSome(other.altitude)

\* a plausible slip: the coordinates are compared exactly
time_lag_of_exact(self, other) ==
    /\ self.time # other.time
    /\ self.x = other.x
    /\ self.y = other.y
    /\ IsSome(self.altitude) /\ self.altitude = other.altitude

\* Location::time_lag_of
time_lag_of(self, other) ==
    /\ self.time # other.time
    /\ approx_equal(self.x, other.x, 4)
    /\ approx_equal(self.y, other.y, 4)
    /\ IF IsSome(self.altitude)
       THEN IF IsSome(other.altitude)
            THEN approx_equal(Unwrap(self.altitude), Unwrap(other.altitude), 4)
            ELSE FALSE
       ELSE FALSE

\* #[derive(PartialEq)] on BalloonData: every field is compared
BalloonData_eq(self, other) ==
    /\ self.callsign = other.callsign
    /\ self.aprs_packet = other.aprs_packet
    /\ self.ais = other.ais
    /\ self.source = other.source
    /\ self.raw = other.raw
    /\ self.status = other.status

\* #[derive(PartialEq)] on BalloonLocation: location and data
BalloonLocation_eq(self, other) ==
    /\ Location_eq(self.location, other.location)
    /\ BalloonData_eq(self.data, other.data)

\* aprs_parser::Callsign as text (its Display, used by from.to_string()):
\* the call, then "-" and the SSID when there is one.  Text is a sequence.
callsign_to_string(callsign) ==
    IF IsSome(callsign.ssid) THEN << callsign.call, "-", Unwrap(callsign.ssid) >>
    ELSE << callsign.call >>

\* BalloonData::new: the callsign defaults to the packet's sender, then to
\* the AIS MMSI; the status starts as PacketStatus::None
BalloonData_new(callsign, aprs_packet, ais, raw, source) ==
    [callsign |-> IF IsSome(callsign) THEN callsign
                  ELSE IF IsSome(aprs_packet)
                       THEN Some(callsign_to_string(Unwrap(aprs_packet).from))
                  ELSE IF IsSome(ais) THEN Some(Unwrap(ais).mmsi)
                  ELSE None,
     aprs_packet |-> aprs_packet,
     ais |-> ais,
     source |-> source,
     raw |-> raw,
     status |-> "None"]

----------------------------------------------------------------------------
(* location/track/mod.rs: BalloonTrack.                                    *)

BalloonTrack_new(name) == [name |-> name, locations |-> << >>, prediction |-> None]

\* a plausible slip: "every" for "some"
contains_every(self, location) ==
    \A i \in 1..Len(self.locations) : BalloonLocation_eq(location, self.locations[i])

\* BalloonTrack::contains
contains(self, location) ==
    \E i \in 1..Len(self.locations) : BalloonLocation_eq(location, self.locations[i])

\* Vec::sort_by_key(|l| l.location.time): a stable sort, as an insertion sort
RECURSIVE InsertByKey(_, _)
InsertByKey(sorted, e) ==
    IF sorted = << >> THEN << e >>
    ELSE IF Last(sorted).location.time <= e.location.time
         THEN Append(sorted, e)
         ELSE Append(InsertByKey(SubSeq(sorted, 1, Len(sorted) - 1), e), Last(sorted))

RECURSIVE sort_by_key(_)
sort_by_key(s) ==
    IF s = << >> THEN << >>
    ELSE InsertByKey(sort_by_key(SubSeq(s, 1, Len(s) - 1)), Last(s))

\* a plausible slip: the location is appended and the track never re-sorted
push_unsorted(self, location) ==
    IF ~contains(self, location)
    THEN [self EXCEPT !.locations = Append(self.locations, location)]
    ELSE self

\* a plausible slip: an out-of-order location restarts the track
push_restarting(self, location) ==
    IF ~contains(self, location)
    THEN IF self.locations # << >>
            /\ Last(self.locations).location.time > location.location.time
         THEN [self EXCEPT !.locations = << location >>]
         ELSE [self EXCEPT !.locations = Append(self.locations, location)]
    ELSE self

\* BalloonTrack::push
push(self, location) ==
    IF ~contains(self, location)
    THEN LET needs_sorting ==
                 IF self.locations # << >>
                 THEN Last(self.locations).location.time > location.location.time
                 ELSE FALSE
             pushed == Append(self.locations, location)
         IN  [self EXCEPT !.locations =
                  IF needs_sorting THEN sort_by_key(pushed) ELSE pushed]
    ELSE self

----------------------------------------------------------------------------
(* location/track/mod.rs: flight dynamics.  A rate is the pair             *)
(* [num |-> altitude steps, den |-> seconds], den > 0: the quotient is     *)
(* never formed, and a zero-second interval gives the non-finite value     *)
(* that the code filters out.                                              *)

with_altitude(locations) ==
    SelectSeq(locations, LAMBDA l : IsSome(l.location.altitude))

intervals(locations) ==
    [i \in 1..(IF Len(locations) = 0 THEN 0 ELSE Len(locations) - 1) |->
        locations[i + 1].location.time - locations[i].location.time]

altitudes(locations) ==
    LET having == with_altitude(locations)
    IN  [i \in 1..Len(having) |-> Unwrap(having[i].location.altitude)]

\* ascents unwraps the altitude of both ends of every adjacent pair
ascents_panics(locations) ==
    \E i \in 1..(Len(locations) - 1) :
        \/ ~IsSome(locations[i].location.altitude)
        \/ ~IsSome(locations[i + 1].location.altitude)

ascents(locations) ==
    [i \in 1..(IF Len(locations) = 0 THEN 0 ELSE Len(locations) - 1) |->
        Unwrap(locations[i + 1].location.altitude) - Unwrap(locations[i].location.altitude)]

ascent_rates(locations) ==
    LET locations_with_altitude == with_altitude(locations)
        spans == intervals(locations_with_altitude)
        climbs == ascents(locations_with_altitude)
        values == [i \in 1..Len(climbs) |-> [num |-> climbs[i], den |-> spans[i]]]
    IN  SelectSeq(values, LAMBDA value : value.den # 0)

\* the great-circle distance itself is not needed: only which quotients
\* distance / seconds are finite
ground_speeds(locations) ==
    SelectSeq(intervals(locations), LAMBDA span : span # 0)

\* rate < 0.2 m/s and rate > 0.2 m/s, with the altitude in steps of 5e-5 m
RateBelow(rate) == rate.num < 4000 * rate.den
RateAbove(rate) == rate.num > 4000 * rate.den

LastTwo(s) == IF Len(s) <= 2 THEN s ELSE SubSeq(s, Len(s) - 1, Len(s))

\* BalloonTrack::ascending: all() of the last (at most) two rates
ascending(self) ==
    LET rates == LastTwo(ascent_rates(self.locations))
    IN  \A i \in 1..Len(rates) : RateAbove(rates[i])

\* BalloonTrack::descending
descending(self) ==
    LET rates == LastTwo(ascent_rates(self.locations))
    IN  \A i \in 1..Len(rates) : RateBelow(rates[i])

\* BalloonTrack::estimated_time_to_ground panics when it unwraps the last
\* ascent rate of a track that has none
estimated_time_to_ground_panics(self) ==
    /\ self.locations # << >>
    /\ descending(self)
    /\ Len(altitudes(self.locations)) > 1
    /\ ascent_rates(self.locations) = << >>

estimated_time_to_ground_is_some(self) ==
    /\ self.locations # << >>
    /\ descending(self)
    /\ Len(altitudes(self.locations)) > 1

----------------------------------------------------------------------------
(* retrieve.rs (and its copy in main.rs): the log lines of a track.  Only  *)
(* whether the formatting panics matters to the state.                     *)

\* location_update: computes intervals, ground speeds, ascents and ascent
\* rates of the whole track, then unwraps the last of each when the track has
\* more than one location
location_update_panics(track) ==
    \/ track.locations = << >>
    \/ ascents_panics(track.locations)
    \/ /\ Len(track.locations) > 1
       /\ \/ ground_speeds(track.locations) = << >>
          \/ ascent_rates(track.locations) = << >>

\* track_update: unwraps the altitude of the last location, then asks for the
\* estimated time to ground
track_update_panics(track) ==
    \/ track.locations = << >>
    \/ ~IsSome(Last(track.locations).location.altitude)
    \/ estimated_time_to_ground_panics(track)

Message(level, text) == [level |-> level, text |-> text]

----------------------------------------------------------------------------
(* retrieve.rs: retrieve_locations.                                        *)

\* a plausible slip: the SSID is left out of the track name
track_name_call_only(packet) ==
    IF IsSome(packet.data.aprs_packet)
    THEN << Unwrap(packet.data.aprs_packet).from.call >>
    ELSE << "other" >>

\* the track name: format!("{:}-{:}", from.call(), ssid) or from.call() of the
\* APRS packet, "other" without a packet
track_name(packet) ==
    IF IsSome(packet.data.aprs_packet)
    THEN LET from == Unwrap(packet.data.aprs_packet).from
         IN  IF IsSome(from.ssid) THEN << from.call, "-", Unwrap(from.ssid) >>
             ELSE << from.call >>
    ELSE << "other" >>

\* tracks.iter_mut().find(|track| track.name == name): index, or 0
find_track(tracks_, name) ==
    IF \E i \in 1..Len(tracks_) : tracks_[i].name = name
    THEN CHOOSE i \in 1..Len(tracks_) :
             /\ tracks_[i].name = name
             /\ \A j \in 1..(i - 1) : tracks_[j].name # name
    ELSE 0

\* for existing_packet in &track.locations { .. }: the status is written
\* into the packet, which the next comparison reads
RECURSIVE classify(_, _, _)
classify(packet, locations, i) ==
    IF i > Len(locations) THEN packet
    ELSE IF BalloonLocation_eq(packet, locations[i])
         THEN classify([packet EXCEPT !.data.status = "Duplicate"], locations, i + 1)
         ELSE IF time_lag_of(packet.location, locations[i].location)
              THEN classify([packet EXCEPT !.data.status = "TimeLaggedDuplicate"],
                            locations, i + 1)
              ELSE classify(packet, locations, i + 1)

\* a plausible slip: a packet sent exactly at the start time is discarded too
before_start_inclusive(packet, start) ==
    IsSome(start) /\ packet.location.time <= Unwrap(start)

\* if let Some(start_time) = start_time { if packet.time < start_time {
before_start(packet, start) ==
    IsSome(start) /\ packet.location.time < Unwrap(start)

\* if let Some(end_time) = end_time { if packet.time > end_time {
after_end(packet, end) ==
    IsSome(end) /\ packet.location.time > Unwrap(end)

Skip(st, packet, text) ==
    [st EXCEPT
        !.messages = Append(@, Message("Debug", text)),
        !.skipped = @ + 1,
        !.results = Append(@, [packet |-> packet, outcome |-> "skipped",
                               name |-> None, before |-> << >>,
                               after |-> << >>, created |-> FALSE])]

\* one iteration of `for mut packet in new_packets`
ingest_packet(st, packet, start, end) ==
    IF before_start(packet, start)
    THEN Skip(st, packet, "skipped packet from before")
    ELSE IF after_end(packet, end)
    THEN Skip(st, packet, "skipped packet from after")
    ELSE
    LET name == track_name(packet)
        found == find_track(st.tracks, name)
        created == found = 0
        tracks1 == IF created THEN Append(st.tracks, BalloonTrack_new(name))
                   ELSE st.tracks
        index == IF created THEN Len(tracks1) ELSE found
        lengths1 == IF created THEN (name :> 0) @@ st.packet_track_lengths
                    ELSE st.packet_track_lengths
        messages1 == IF created
                     THEN Append(st.messages, Message("Debug", "started track"))
                     ELSE st.messages
        track == tracks1[index]
        classified == classify(packet, track.locations, 1)
        status == classified.data.status
        result(outcome, after) ==
            [packet |-> packet, outcome |-> outcome, name |-> Some(name),
             before |-> track.locations, after |-> after, created |-> created]
    IN  IF status = "Duplicate"
        THEN [st EXCEPT
                 !.tracks = tracks1, !.packet_track_lengths = lengths1,
                 !.duplicates = @ + 1,
                 !.messages = Append(messages1,
                                     Message("Debug", "skipped duplicate packet")),
                 !.results = Append(@, result("Duplicate", track.locations))]
        ELSE IF status = "TimeLaggedDuplicate"
        THEN [st EXCEPT
                 !.tracks = tracks1, !.packet_track_lengths = lengths1,
                 !.time_lagged_duplicates = @ + 1,
                 !.messages = Append(messages1,
                     Message("Debug", "skipped time-lagged duplicate packet")),
                 !.results = Append(@, result("TimeLaggedDuplicate", track.locations))]
        ELSE LET pushed == push(track, classified)
                 tracks2 == [tracks1 EXCEPT ![index] = pushed]
             IN  [st EXCEPT
                     !.tracks = tracks2, !.packet_track_lengths = lengths1,
                     !.results = Append(@, result("pushed", pushed.locations)),
                     !.panicked = location_update_panics(pushed),
                     !.messages = IF location_update_panics(pushed) THEN messages1
                                  ELSE Append(messages1,
                                              Message("Debug", "location update"))]

RECURSIVE ingest(_, _, _, _, _)
ingest(st, new_packets, i, start, end) ==
    IF i > Len(new_packets) \/ st.panicked THEN st
    ELSE ingest(ingest_packet(st, new_packets[i], start, end),
                new_packets, i + 1, start, end)

\* for track in tracks { if the track grew { track_update(track) } }
RECURSIVE report_tracks(_, _)
report_tracks(st, i) ==
    IF i > Len(st.tracks) \/ st.panicked THEN st
    ELSE IF Len(st.tracks[i].locations) - st.packet_track_lengths[st.tracks[i].name] > 0
         THEN IF track_update_panics(st.tracks[i])
              THEN [st EXCEPT !.panicked = TRUE]
              ELSE report_tracks(
                       [st EXCEPT !.messages = Append(@, Message("Info", "track update"))],
                       i + 1)
         ELSE report_tracks(st, i + 1)

\* for connection in connections { match connection.retrieve_packets() .. }:
\* the packets of the connections that answered, in the order polled
RECURSIVE poll_packets(_, _)
poll_packets(outcomes, i) ==
    IF i > Len(outcomes) THEN << >>
    ELSE (IF outcomes[i].ok THEN outcomes[i].packets ELSE << >>)
         \o poll_packets(outcomes, i + 1)

poll_messages(outcomes) ==
    LET failed == SelectSeq(outcomes, LAMBDA o : ~o.ok)
    IN  [i \in 1..Len(failed) |-> Message("Error", failed[i].error)]

\* retrieve_locations of retrieve.rs.  `outcomes` is what each connection's
\* retrieve_packets returns in this call.
retrieve_locations(outcomes, tracks_, start, end) ==
    LET new_packets == poll_packets(outcomes, 1)
        st0 == [tracks |-> tracks_,
                messages |-> Append(poll_messages(outcomes),
                                    Message("Debug", "received packets")),
                packet_track_lengths |->
                    [n \in {tracks_[i].name : i \in 1..Len(tracks_)} |->
                        Len(tracks_[find_track(tracks_, n)].locations)],
                duplicates |-> 0, time_lagged_duplicates |-> 0, skipped |-> 0,
                results |-> << >>, panicked |-> FALSE]
        st1 == ingest(st0, new_packets, 1, start, end)
        st2 == IF st1.panicked THEN st1
               ELSE [st1 EXCEPT !.messages =
                        Append(@, Message("Debug", "received new packets"))]
    IN  IF new_packets = << >> THEN st0 ELSE report_tracks(st2, 1)

----------------------------------------------------------------------------
(* The connections and what they can deliver.                              *)

Times == 1..MaxTime
Coords == 0..MaxCoord
Altitudes == {None, Some(0)}
Callsigns == {[call |-> "W3EAX", ssid |-> Some("13")]}

BalloonLocation(time, x, y, altitude, data) ==
    [location |-> [time |-> time, x |-> x, y |-> y, altitude |-> altitude],
     data |-> data]

AprsPacket(from) == [from |-> from]

\* connection/text/file.rs, GeoJsonFile::read_locations_from_geojson: a point
\* feature, with an APRS packet when it has a "from" property
GeoJsonRecords ==
    {BalloonLocation(t, x, 0, a,
                     BalloonData_new(None, p, None, None, "TextFile")) :
        t \in Times, x \in Coords, a \in Altitudes,
        p \in {None} \cup {Some(AprsPacket(c)) : c \in Callsigns}}

\* connection/aprs_fi.rs, AprsFiLocationRecord::to_balloon_location
AprsFiRecords ==
    {BalloonLocation(t, x, 0, a,
                     BalloonData_new(None, Some(AprsPacket(c)), None, None, "AprsFi")) :
        t \in Times, x \in Coords, a \in Altitudes, c \in Callsigns}

Ok(packets) == [ok |-> TRUE, packets |-> packets, error |-> "None"]
Err(error) == [ok |-> FALSE, packets |-> << >>, error |-> error]

\* what one call of Connection::retrieve_packets can return: an error, or
\* no record, one record or (a file holding a feature twice) the same record
\* twice
GeoJsonOutcomes ==
    {Err("ReadFailure"), Ok(<< >>)}
        \cup {Ok(<< r >>) : r \in GeoJsonRecords}
        \cup {Ok(<< r, r >>) : r \in GeoJsonRecords}

AprsFiOutcomes ==
    {Err("ApiError"), Ok(<< >>)} \cup {Ok(<< r >>) : r \in AprsFiRecords}

\* the configured connections, in the order PacketravenApp::new pushes them
PollOutcomes == {<< g, a >> : g \in GeoJsonOutcomes, a \in AprsFiOutcomes}

----------------------------------------------------------------------------
(* model.rs and BalloonTrack::falling.  Rates of the freefall model are in *)
(* mm/s and its altitude in whole metres.                                  *)

\* FreefallEstimate::new: dh/dt = -5.8e-8 h^2 - 6.001 m/s, uncertainty 20 %
FreefallEstimate_new(altitude) ==
    LET metres == altitude \div 20000
        speed == ((((metres * metres) \div 1000) * 58) \div 1000) + 6001
    IN  [ascent_rate |-> -speed, ascent_rate_uncertainty |-> speed \div 5]

\* BalloonTrack::falling; an observed rate num/den steps per second is
\* num / (20 den) mm/s
falling(self) ==
    LET last_location == Last(self.locations)
        rates == ascent_rates(self.locations)
    IN  IF IsSome(last_location.location.altitude) /\ descending(self)
        THEN LET freefall_estimate ==
                     FreefallEstimate_new(Unwrap(last_location.location.altitude))
             IN  IF rates = << >> THEN None
                 ELSE IF Last(rates).num
                             - 20 * Last(rates).den * freefall_estimate.ascent_rate
                         < 20 * Last(rates).den
                               * freefall_estimate.ascent_rate_uncertainty
                 THEN Some(freefall_estimate)
                 ELSE None
        ELSE None

----------------------------------------------------------------------------
(* prediction/mod.rs and prediction/tawhiri.rs.                            *)

\* 500 m, in steps of 5e-5 m
DEFAULT_FLOAT_UNCERTAINTY == 10000000

FlightProfile_new(ascent_rate, float_altitude, float_duration, float_uncertainty, burst_altitude, sea_level_descent_rate) ==
    [ascent_rate |-> ascent_rate,
     float_altitude |-> float_altitude,
     float_duration |-> float_duration,
     float_uncertainty |-> IF IsSome(float_uncertainty)
                           THEN Unwrap(float_uncertainty)
                           ELSE DEFAULT_FLOAT_UNCERTAINTY,
     burst_altitude |-> burst_altitude,
     sea_level_descent_rate |-> sea_level_descent_rate]

new_float(ascent_rate, float_altitude, float_duration, float_uncertainty, burst_altitude, sea_level_descent_rate) ==
    FlightProfile_new(ascent_rate, float_altitude, Some(float_duration),
                      float_uncertainty, burst_altitude, sea_level_descent_rate)

new_standard(ascent_rate, burst_altitude, sea_level_descent_rate) ==
    FlightProfile_new(ascent_rate, None, None, None, burst_altitude,
                      sea_level_descent_rate)

TawhiriQuery_new(start, profile, descent_only, float_start) ==
    [start |-> start, profile |-> profile, descent_only |-> descent_only,
     float_start |-> float_start]

\* parameters: the longitude of the start in the 0-360 form of the service;
\* 360 degrees is 7200000 steps
start_location(self) ==
    IF self.start.x < 0
    THEN [x |-> self.start.x + 7200000, y |-> self.start.y]
    ELSE [x |-> self.start.x, y |-> self.start.y]

\* a descent-only request that bursts where the profile says
burst_altitude_of_profile(self) ==
    IF self.descent_only /\ ~IsSome(self.start.altitude)
    THEN ParseErr("RequestError")
    ELSE ParseOk(self.profile.burst_altitude)

\* parameters: let burst_altitude = match self.query.descent_only { .. };
\* 0.1 m is 2000 steps
burst_altitude_parameter(self) ==
    IF self.descent_only
    THEN IF IsSome(self.start.altitude)
         THEN ParseOk(Unwrap(self.start.altitude) + 2000)
         ELSE ParseErr("RequestError")
    ELSE ParseOk(self.profile.burst_altitude)

\* parameters: the "profile" parameter that is pushed, if any
profile_selector(self) ==
    IF IsSome(self.profile.float_duration)
    THEN IF ~self.descent_only THEN Some("float_profile") ELSE None
    ELSE Some("standard_profile")

\* parameters: float_altitude, at least 1 m (20000 steps) above the launch
float_altitude_parameter(self) ==
    LET float_altitude ==
            IF IsSome(self.profile.float_altitude)
            THEN Unwrap(self.profile.float_altitude)
            ELSE self.profile.burst_altitude
    IN  IF IsSome(self.start.altitude) /\ float_altitude <= Unwrap(self.start.altitude)
        THEN Unwrap(self.start.altitude) + 20000
        ELSE float_altitude

\* `as i64`: the quotient n / d without its fraction, d > 0
Truncated(n, d) == IF n >= 0 THEN n \div d ELSE -((-n) \div d)

\* parameters: self.query.float_start.unwrap_or(start.time + seconds(
\*     (float_altitude - start.altitude.unwrap_or(0.0) / ascent_rate) as i64)),
\* where the division binds tighter than the subtraction; altitudes are in
\* steps of 5e-5 m and the rate in m/s
float_start_time(self) ==
    IF IsSome(self.float_start) THEN Unwrap(self.float_start)
    ELSE self.start.time
         + Truncated(float_altitude_parameter(self) * self.profile.ascent_rate
                         - (IF IsSome(self.start.altitude)
                            THEN Unwrap(self.start.altitude) ELSE 0),
                     20000 * self.profile.ascent_rate)

\* TawhiriQuery::parameters: the values handed to the request, before they
\* are written with two decimals, or RequestError.
parameters(self) ==
    IF burst_altitude_parameter(self).kind = "Err"
    THEN burst_altitude_parameter(self)
    ELSE ParseOk(
        [launch_longitude |-> start_location(self).x,
         launch_latitude |-> start_location(self).y,
         launch_datetime |-> self.start.time,
         ascent_rate |-> self.profile.ascent_rate,
         burst_altitude |-> burst_altitude_parameter(self).value,
         descent_rate |-> self.profile.sea_level_descent_rate,
         launch_altitude |-> self.start.altitude,
         profile |-> profile_selector(self),
         float_altitude |-> IF profile_selector(self) = Some("float_profile")
                            THEN Some(float_altitude_parameter(self)) ELSE None,
         stop_datetime |-> IF profile_selector(self) = Some("float_profile")
                           THEN Some(float_start_time(self)
                                     + Unwrap(self.profile.float_duration))
                           ELSE None])

\* a conversion that also takes 180 degrees for a wrapped longitude
to_balloon_location_inclusive(self) ==
    BalloonLocation(self.datetime,
                    IF self.longitude >= 3600000
                    THEN self.longitude - 7200000
                    ELSE self.longitude,
                    self.latitude, Some(self.altitude),
                    BalloonData_new(None, None, None, None, "Prediction"))

\* TawhiriLocation::to_balloon_location; 180 degrees is 3600000 steps
to_balloon_location(self) ==
    BalloonLocation(self.datetime,
                    IF self.longitude > 3600000
                    THEN self.longitude - 7200000
                    ELSE self.longitude,
                    self.latitude, Some(self.altitude),
                    BalloonData_new(None, None, None, None, "Prediction"))

HasStage(prediction, name) ==
    SelectSeq(prediction, LAMBDA stage : stage.stage = name) # << >>

FirstStage(prediction, name) ==
    Head(SelectSeq(prediction, LAMBDA stage : stage.stage = name))

Answer(kind, value, error, requests) ==
    [kind |-> kind, value |-> value, error |-> error, requests |-> requests]

\* a client that hands back a descent-only answer without a descent stage
descent_only_stage_unchecked(self, stitched) ==
    IF stitched.kind # "Ok" \/ ~self.descent_only THEN stitched
    ELSE IF HasStage(stitched.value, "descent")
    THEN [stitched EXCEPT !.value = << FirstStage(stitched.value, "descent") >>]
    ELSE stitched

\* get, once the response has deserialized: if self.query.descent_only { .. }
descent_only_stage(self, stitched) ==
    IF stitched.kind # "Ok" \/ ~self.descent_only THEN stitched
    ELSE IF HasStage(stitched.value, "descent")
    THEN [stitched EXCEPT !.value = << FirstStage(stitched.value, "descent") >>]
    ELSE Answer("Err", << >>, "NoDescentStage", stitched.requests)

\* a stitch that lets an answer without a float stage through
missing_float_stage_ignored(response, sent) ==
    Answer("Ok", response.prediction, "None", sent)

\* get: if !float_stage_exists { return Err(TawhiriError::NoFloatStage); }
missing_float_stage(response, sent) ==
    Answer("Err", << >>, "NoFloatStage", sent)

\* a stitch that starts the descent at the first point of the float stage
float_end_location_first(response) ==
    to_balloon_location(Head(FirstStage(response.prediction, "float").trajectory))

\* get: stage.trajectory.last().unwrap().to_balloon_location()
float_end_location(response) ==
    to_balloon_location(Last(FirstStage(response.prediction, "float").trajectory))

\* a stitch that asks the whole flight profile again from the float end
descent_query_of_profile(self, float_end) ==
    TawhiriQuery_new(float_end.location, self.profile, FALSE, None)

\* get: the descent-only query from the end of the float stage
descent_query(self, float_end) ==
    TawhiriQuery_new(float_end.location,
                     new_standard(10, Unwrap(float_end.location.altitude),
                                  self.profile.sea_level_descent_rate),
                     TRUE, None)

\* TawhiriQuery::get.  `responses` is what the service answers to the
\* requests of this call, in the order they are sent; the result carries the
\* requests that were sent.
RECURSIVE get(_, _)
get(self, responses) ==
    LET request == parameters(self)
        response == responses[1]
        sent == << request.value >>
        append_descent(descent) ==
            IF descent.kind # "Ok"
            THEN Answer("Panic", << >>, "descent_query.get().unwrap()",
                        sent \o descent.requests)
            ELSE Answer("Ok",
                        response.prediction
                            \o (IF HasStage(descent.value, "descent")
                                THEN << FirstStage(descent.value, "descent") >>
                                ELSE << >>),
                        "None", sent \o descent.requests)
        stitched ==
            IF response.request = "float_profile" /\ ~HasStage(response.prediction, "descent")
            THEN IF ~HasStage(response.prediction, "float")
                 THEN missing_float_stage(response, sent)
                 ELSE IF FirstStage(response.prediction, "float").trajectory = << >>
                 THEN Answer("Panic", << >>, "trajectory.last().unwrap()", sent)
                 ELSE Bind(get(descent_query(self, float_end_location(response)),
                               Tail(responses)),
                           append_descent)
            ELSE Answer("Ok", response.prediction, "None", sent)
    IN  IF request.kind = "Err" THEN Answer("Err", << >>, request.error, << >>)
        ELSE IF ~response.sent
        THEN Answer("Panic", << >>, "error retrieving prediction", sent)
        ELSE IF response.status # "OK"
        THEN Answer("Err", << >>,
                    IF response.json THEN "HttpError" ELSE "ParsingError", sent)
        ELSE IF ~response.json
        THEN Answer("Panic", << >>, "error parsing response JSON", sent)
        ELSE Bind(stitched, LAMBDA answer : descent_only_stage(self, answer))

RECURSIVE stage_locations(_)
stage_locations(prediction) ==
    IF prediction = << >> THEN << >>
    ELSE [i \in 1..Len(prediction[1].trajectory) |->
             to_balloon_location(prediction[1].trajectory[i])]
         \o stage_locations(Tail(prediction))

\* TawhiriQuery::retrieve_prediction
retrieve_prediction(self, responses) ==
    Bind(get(self, responses),
         LAMBDA response :
             IF response.kind = "Ok"
             THEN [response EXCEPT !.value = stage_locations(response.value)]
             ELSE response)

\* BalloonTrack::prediction, up to the query it builds: whether the query is
\* descent-only, and the float start it carries
prediction_query(self, profile) ==
    LET was_descending == descending(self) \/ IsSome(falling(self))
        locations_at_float_altitude ==
            IF IsSome(profile.float_altitude)
            THEN SelectSeq(self.locations,
                           LAMBDA location :
                               /\ IsSome(location.location.altitude)
                               /\ Abs(Unwrap(profile.float_altitude)
                                      - Unwrap(location.location.altitude))
                                      <= profile.float_uncertainty)
            ELSE << >>
        is_descending ==
            IF /\ locations_at_float_altitude # << >>
               /\ was_descending
               /\ ~IsSome(falling(self))
               /\ Abs(Unwrap(Last(locations_at_float_altitude).location.altitude)
                      - Unwrap(profile.float_altitude))
                      <= profile.float_uncertainty
            THEN FALSE
            ELSE was_descending
        float_start ==
            IF locations_at_float_altitude # << >>
            THEN Some(locations_at_float_altitude[1].location.time)
            ELSE None
    IN  TawhiriQuery_new(Last(self.locations).location, profile,
                         is_descending, float_start)

\* BalloonTrack::prediction
prediction(self, profile, responses) ==
    Bind(prediction_query(self, profile),
         LAMBDA query : retrieve_prediction(query, responses))

----------------------------------------------------------------------------
(* The run configurations explored.                                        *)

Configuration(f, s, e, p) ==
    [frontend |-> f, start |-> s, end |-> e, prediction |-> p]

Configurations ==
    {Configuration("tui", None, None, None),
     Configuration("tui", Some(MaxTime), None, None),
     Configuration("tui", None, Some(1), None),
     Configuration("cli", None, None, None)}

NoFile == [readable |-> FALSE, lines |-> << >>, callsigns |-> None]
NotRead == [kind |-> "NotRead"]

Init ==
    /\ aprs_file = NoFile
    /\ read_result = NotRead
    /\ QueryIdle
    /\ LoopIdle
    /\ FlightIdle
    /\ LimiterIdle
    /\ \E c \in Configurations :
        /\ frontend = c.frontend
        /\ start_time = c.start
        /\ end_time = c.end
        /\ prediction_configuration = c.prediction
    /\ prediction_file = None
    /\ tracks = << >>
    /\ log_messages = << >>
    /\ results = << >>
    /\ counts = [duplicates |-> 0, time_lagged_duplicates |-> 0, skipped |-> 0]
    /\ polled = << >>
    /\ predicted = << >>
    /\ running = TRUE
    /\ ticks = 0

\* connection/text/file.rs, locations_geojson_featurecollection: a point of
\* longitude and latitude, the sender when there is a packet, and no time
geojson_feature(location) ==
    [point |-> << location.location.x, location.location.y >>,
     time |-> None,
     from |-> IF IsSome(location.data.aprs_packet)
              THEN Some(Unwrap(location.data.aprs_packet).from)
              ELSE None]

\* GeoJsonFile::read_locations_from_geojson of such a file: a feature
\* without a "time" property is passed over
read_locations_from_geojson(features) ==
    LET timed == SelectSeq(features, LAMBDA feature : IsSome(feature.time))
    IN  [i \in 1..Len(timed) |->
            BalloonLocation(Unwrap(timed[i].time), timed[i].point[1],
                            timed[i].point[2],
                            IF Len(timed[i].point) > 2
                            THEN Some(timed[i].point[3]) ELSE None,
                            BalloonData_new(None,
                                IF IsSome(timed[i].from)
                                THEN Some(AprsPacket(Unwrap(timed[i].from)))
                                ELSE None,
                                None, None, "TextFile"))]

Predicted(name, kind, error) == [name |-> name, kind |-> kind, error |-> error]

\* on_tick: for track in tracks { track.prediction = match track.prediction(..) }
\* a refresh that starts the track over with the new prediction
set_prediction_afresh(track, predicted_locations) ==
    [BalloonTrack_new(track.name) EXCEPT !.prediction = predicted_locations]

\* on_tick: track.prediction = match prediction { .. }
set_prediction(track, predicted_locations) ==
    [track EXCEPT !.prediction = predicted_locations]

\* `answers[i]` is what the service answers to the requests made for the
\* i-th track
RECURSIVE predict_tracks(_, _, _, _, _)
predict_tracks(st, i, profile, existing_prediction, answers) ==
    IF i > Len(st.tracks) \/ st.panicked THEN st
    ELSE LET name == st.tracks[i].name
             assign(retrieved) ==
                 IF retrieved.kind = "Panic"
                 THEN [st EXCEPT !.panicked = TRUE,
                                 !.predicted = Append(@, Predicted(name, "Panic", retrieved.error))]
                 ELSE IF retrieved.kind = "Err"
                 THEN [st EXCEPT !.tracks[i] = set_prediction(@, existing_prediction),
                                 !.messages = Append(@, Message("Error", retrieved.error)),
                                 !.predicted = Append(@, Predicted(name, "Err", retrieved.error))]
                 ELSE IF retrieved.value = << >>
                 THEN [st EXCEPT !.panicked = TRUE,
                                 !.predicted = Append(@, Predicted(name, "Panic",
                                                   "retrieved_prediction.last().unwrap()"))]
                 ELSE [st EXCEPT !.tracks[i] = set_prediction(@, Some(retrieved.value)),
                                 !.messages = Append(@, Message("Info", "predicted landing location")),
                                 !.predicted = Append(@, Predicted(name, "Ok", "None"))]
         IN  Bind(Bind(IF st.tracks[i].locations = << >>
                       THEN Answer("Panic", << >>, "locations.last().unwrap()", << >>)
                       ELSE prediction(st.tracks[i], profile, answers[i]),
                       assign),
                  LAMBDA next : predict_tracks(next, i + 1, profile,
                                               existing_prediction, answers))

RECURSIVE predictions_of(_)
predictions_of(tracks_) ==
    IF tracks_ = << >> THEN << >>
    ELSE (IF IsSome(tracks_[1].prediction) THEN Unwrap(tracks_[1].prediction) ELSE << >>)
         \o predictions_of(Tail(tracks_))

\* on_tick: if let Some(prediction_configuration) = &self.configuration.prediction
refresh_predictions(st, configuration, file, answers) ==
    LET reading == configuration.output_file /\ IsSome(file)
        existing_prediction ==
            IF reading THEN Some(read_locations_from_geojson(Unwrap(file))) ELSE None
        st0 == [tracks |-> st.tracks,
                messages |-> IF reading
                             THEN Append(st.messages,
                                         Message("Debug", "reading existing prediction output file"))
                             ELSE st.messages,
                predicted |-> << >>,
                panicked |-> FALSE,
                file |-> file]
        write(st1) ==
            IF st1.panicked \/ ~configuration.output_file THEN st1
            ELSE [st1 EXCEPT !.file =
                                 Bind(predictions_of(st1.tracks),
                                      LAMBDA written :
                                          Some([i \in 1..Len(written) |->
                                                   geojson_feature(written[i])])),
                             !.messages = Append(@, Message("Debug", "wrote predictions"))]
    IN  Bind(Bind(st0, LAMBDA st_ : predict_tracks(st_, 1, configuration.profile,
                                                  existing_prediction, answers)),
             write)

\* tui/app.rs, PacketravenApp::on_tick
on_tick(outcomes, answers) ==
    /\ running
    /\ frontend = "tui"
    /\ ticks < MaxTicks
    /\ \E st \in {retrieve_locations(outcomes, tracks, start_time, end_time)} :
           /\ results' = st.results
           /\ counts' = [duplicates |-> st.duplicates,
                         time_lagged_duplicates |-> st.time_lagged_duplicates,
                         skipped |-> st.skipped]
           /\ IF st.panicked \/ ~IsSome(prediction_configuration)
              THEN /\ tracks' = st.tracks
                   /\ running' = ~st.panicked
                   /\ log_messages' = IF st.panicked THEN << >> ELSE st.messages
                   /\ predicted' = << >>
                   /\ UNCHANGED prediction_file
              ELSE \E refreshed \in {refresh_predictions(
                                         st, Unwrap(prediction_configuration),
                                         prediction_file, answers)} :
                   /\ tracks' = refreshed.tracks
                   /\ running' = ~refreshed.panicked
                   /\ log_messages' = IF refreshed.panicked THEN << >>
                                      ELSE refreshed.messages
                   /\ predicted' = refreshed.predicted
                   /\ prediction_file' = refreshed.file
    /\ polled' = outcomes
    /\ ticks' = ticks + 1
    /\ UNCHANGED <<loop_vars, frontend, start_time, end_time, prediction_configuration,
                   aprs_file, read_result, query_vars, flight_vars, limiter_vars>>

\* main.rs: one iteration of the loop of main; its retrieve_locations ends
\* the process at the first connection that fails
main_loop(outcomes) ==
    /\ running
    /\ frontend = "cli"
    \* retrieve_predictions of main.rs is written against a track API that
    \* the repository no longer has: the loop is followed without prediction
    /\ prediction_configuration = None
    /\ ticks < MaxTicks
    /\ LET failed == \E i \in 1..Len(outcomes) : ~outcomes[i].ok
           first == CHOOSE i \in 1..Len(outcomes) :
                        ~outcomes[i].ok /\ \A j \in 1..(i - 1) : outcomes[j].ok
       IN  IF failed
           THEN /\ running' = FALSE
                /\ log_messages' = << Message("Error", outcomes[first].error) >>
                /\ polled' = SubSeq(outcomes, 1, first)
                /\ results' = << >>
                /\ counts' = [duplicates |-> 0, time_lagged_duplicates |-> 0,
                              skipped |-> 0]
                /\ UNCHANGED tracks
           ELSE \E st \in {retrieve_locations(outcomes, tracks, start_time, end_time)} :
                /\ tracks' = st.tracks
                /\ results' = st.results
                /\ counts' = [duplicates |-> st.duplicates,
                              time_lagged_duplicates |-> st.time_lagged_duplicates,
                              skipped |-> st.skipped]
                /\ running' = ~st.panicked
                /\ log_messages' = st.messages
                /\ polled' = outcomes
    /\ ticks' = ticks + 1
    /\ UNCHANGED <<loop_vars, frontend, start_time, end_time, prediction_configuration,
                   prediction_file, predicted, aprs_file, read_result,
                   query_vars, flight_vars, limiter_vars>>

\* no prediction is configured: the service is never asked
NoAnswers == << >>

Next ==
    \E outcomes \in PollOutcomes :
        \/ on_tick(outcomes, NoAnswers)
        \/ main_loop(outcomes)

Spec == Init /\ [][Next]_vars

----------------------------------------------------------------------------
(* Ticks of the terminal front end with a prediction configured.           *)

\* ascent 5 m/s, burst at 30 km, descent 5 m/s at sea level
StandardProfile == new_standard(5, 600000000, 5)

\* the same, floating for an hour at 400 m, within 500 m
FloatProfile == new_float(5, Some(8000000), 3600, None, 600000000, 5)

PredictionConfiguration(profile, output_file) ==
    [profile |-> profile, output_file |-> output_file]

PredictConfigurations ==
    {Configuration("tui", None, None, Some(PredictionConfiguration(StandardProfile, FALSE))),
     Configuration("tui", None, None, Some(PredictionConfiguration(FloatProfile, FALSE))),
     Configuration("tui", None, None, Some(PredictionConfiguration(StandardProfile, TRUE)))}

\* telemetry at the ground or HighAltitude steps (5 m) above it
PredictRecords(packet, source, heights) ==
    {BalloonLocation(t, 0, 0, Some(a),
                     BalloonData_new(None, packet, None, None, source)) :
        t \in Times, a \in heights}

\* the file reports a balloon that climbs, hovers or drops; aprs.fi one
\* that stays on the ground
PredictPollOutcomes ==
    {<< g, a >> :
        g \in {Ok(<< >>)}
              \cup {Ok(<< r >>) :
                       r \in PredictRecords(None, "TextFile", {0, HighAltitude})},
        a \in {Ok(<< >>)}
              \cup {Ok(<< r >>) :
                       r \in UNION {PredictRecords(Some(AprsPacket(c)), "AprsFi", {0}) :
                                        c \in Callsigns}}}

TawhiriLocation(n) ==
    [altitude |-> 0, datetime |-> MaxTime + n, latitude |-> 0, longitude |-> 0]

TawhiriPrediction(stage, trajectory) == [stage |-> stage, trajectory |-> trajectory]

ascent_stage == TawhiriPrediction("ascent", << TawhiriLocation(1) >>)
float_stage == TawhiriPrediction("float", << TawhiriLocation(2) >>)
descent_stage == TawhiriPrediction("descent", << TawhiriLocation(3) >>)

\* what the service does with one request: whether send() succeeds, the
\* status, whether the body deserializes, the profile tag of the echoed
\* request and the stages
TawhiriResponse(sent, status, json, request, stages) ==
    [sent |-> sent, status |-> status, json |-> json, request |-> request,
     prediction |-> stages]

SendFailure == TawhiriResponse(FALSE, "None", FALSE, "None", << >>)
ErrorResponse == TawhiriResponse(TRUE, "BAD_REQUEST", TRUE, "None", << >>)
StandardResponse(stages) == TawhiriResponse(TRUE, "OK", TRUE, "standard_profile", stages)
FloatResponse(stages) == TawhiriResponse(TRUE, "OK", TRUE, "float_profile", stages)

\* the answers to the requests made for one track: one answer, or two when
\* the first makes the client ask for the descent
TrackAnswers ==
    {<< SendFailure >>, << ErrorResponse >>,
     << StandardResponse(<< ascent_stage, descent_stage >>) >>,
     << StandardResponse(<< >>) >>,
     << FloatResponse(<< ascent_stage >>) >>}
    \cup {<< FloatResponse(<< ascent_stage, float_stage >>), second >> :
              second \in {SendFailure, ErrorResponse,
                          StandardResponse(<< descent_stage >>)}}

ServiceAnswers == [1..MaxTracks -> TrackAnswers]

InitPredict ==
    /\ aprs_file = NoFile
    /\ read_result = NotRead
    /\ QueryIdle
    /\ LoopIdle
    /\ FlightIdle
    /\ LimiterIdle
    /\ \E c \in PredictConfigurations :
        /\ frontend = c.frontend
        /\ start_time = c.start
        /\ end_time = c.end
        /\ prediction_configuration = c.prediction
    /\ prediction_file = None
    /\ tracks = << >>
    /\ log_messages = << >>
    /\ results = << >>
    /\ counts = [duplicates |-> 0, time_lagged_duplicates |-> 0, skipped |-> 0]
    /\ polled = << >>
    /\ predicted = << >>
    /\ running = TRUE
    /\ ticks = 0

NextPredict ==
    \E outcomes \in PredictPollOutcomes, answers \in ServiceAnswers :
        on_tick(outcomes, answers)

SpecPredict == InitPredict /\ [][NextPredict]_vars

----------------------------------------------------------------------------
(* One query to the prediction service, whatever the service answers.      *)

\* 180 degrees, in steps of 5e-5 degrees
HalfTurn == 3600000

Longitudes == {-HalfTurn, -1, 0, 1, HalfTurn}

QueryStarts ==
    {[time |-> 1, x |-> x, y |-> 0, altitude |-> a] :
        x \in Longitudes, a \in {None, Some(0), Some(HighAltitude)}}

Queries ==
    {TawhiriQuery_new(start, profile, descent_only, float_start) :
        start \in QueryStarts, profile \in {StandardProfile, FloatProfile},
        descent_only \in BOOLEAN, float_start \in {None, Some(MaxTime)}}

\* the descent stage that the service answers to a later request
later_descent_stage == TawhiriPrediction("descent", << TawhiriLocation(4) >>)

\* a float stage of two points that ends west of Greenwich, at altitude
long_float_stage ==
    TawhiriPrediction("float",
        << TawhiriLocation(2),
           [altitude |-> HighAltitude, datetime |-> MaxTime + 3,
            latitude |-> 1, longitude |-> 2 * HalfTurn - 1] >>)

StageLists ==
    {<< >>, << ascent_stage >>, << ascent_stage, descent_stage >>,
     << ascent_stage, float_stage >>,
     << ascent_stage, float_stage, descent_stage >>,
     << ascent_stage, long_float_stage >>,
     << ascent_stage, TawhiriPrediction("float", << >>) >>}

FirstResponses ==
    {SendFailure, ErrorResponse,
     TawhiriResponse(TRUE, "BAD_REQUEST", FALSE, "None", << >>),
     TawhiriResponse(TRUE, "OK", FALSE, "None", << >>)}
    \cup {StandardResponse(stages) : stages \in StageLists}
    \cup {FloatResponse(stages) : stages \in StageLists}

SecondResponses ==
    {SendFailure, ErrorResponse,
     StandardResponse(<< later_descent_stage >>),
     StandardResponse(<< ascent_stage >>),
     StandardResponse(<< ascent_stage, float_stage >>),
     FloatResponse(<< float_stage >>)}

ThirdResponses == {SendFailure, StandardResponse(<< later_descent_stage >>)}

Services ==
    {<< first, second, third >> :
        first \in FirstResponses, second \in SecondResponses,
        third \in ThirdResponses}

InitQuery ==
    /\ tawhiri_query \in Queries
    /\ service \in Services
    /\ query_result = NotAsked
    /\ FlightIdle
    /\ LoopIdle
    /\ LimiterIdle
    /\ aprs_file = NoFile
    /\ read_result = NotRead
    /\ frontend = "tui"
    /\ start_time = None
    /\ end_time = None
    /\ prediction_configuration = None
    /\ prediction_file = None
    /\ tracks = << >>
    /\ log_messages = << >>
    /\ results = << >>
    /\ counts = [duplicates |-> 0, time_lagged_duplicates |-> 0, skipped |-> 0]
    /\ polled = << >>
    /\ predicted = << >>
    /\ running = TRUE
    /\ ticks = 0

\* prediction/tawhiri.rs, TawhiriQuery::retrieve_prediction: one call
ask_prediction ==
    /\ query_result = NotAsked
    /\ query_result' = retrieve_prediction(tawhiri_query, service)
    /\ UNCHANGED <<loop_vars, tick_vars, decode_vars, flight_vars, limiter_vars,
                   tawhiri_query, service>>

NextQuery == ask_prediction

SpecQuery == InitQuery /\ [][NextQuery]_vars

----------------------------------------------------------------------------
(* The connections that limit how often they are polled:                   *)
(* connection/aprs_fi.rs and connection/sondehub.rs.                       *)

MINIMUM_ACCESS_INTERVAL == 10

MaxClock == 20
MaxSends == 3

\* a limiter that still rejects a poll when the interval has just elapsed
too_frequent_inclusive(instant, last_access) ==
    /\ IsSome(last_access)
    /\ instant - Unwrap(last_access) <= MINIMUM_ACCESS_INTERVAL

\* if let Some(last_access_time) = self.last_access
\*     { if now - last_access_time < *MINIMUM_ACCESS_INTERVAL { .. } }
too_frequent(instant, last_access) ==
    /\ IsSome(last_access)
    /\ instant - Unwrap(last_access) < MINIMUM_ACCESS_INTERVAL

Polled(self, result, sent) == [self |-> self, result |-> result, sent |-> sent]

\* AprsFiQuery::retrieve_aprs_from_aprsfi at `instant`; `response` is what
\* happens to the request: "SendFailure", "ApiError" or "Ok"
retrieve_aprs_from_aprsfi(self, instant, response) ==
    IF too_frequent(instant, self.last_access)
    THEN Polled(self, "TooFrequent", 0)
    ELSE IF self.callsigns = None
    THEN Polled(self, "FailedToEstablish", 0)
    ELSE IF response = "SendFailure"
    THEN Polled(self, "Panic", 1)
    ELSE Polled([self EXCEPT !.last_access = Some(instant)], response, 1)

\* retrieve_locations_from_sondehub: for url in &urls { .. }
RECURSIVE sondehub_requests(_, _, _)
sondehub_requests(urls, responses, sent) ==
    IF urls = << >> THEN [result |-> "Ok", sent |-> sent]
    ELSE IF responses[1] = "SendFailure"
    THEN [result |-> "Panic", sent |-> sent + 1]
    ELSE IF responses[1] = "ApiError"
    THEN [result |-> "ApiError", sent |-> sent + 1]
    ELSE sondehub_requests(Tail(urls), Tail(responses), sent + 1)

\* SondeHubQuery::retrieve_locations_from_sondehub at `instant`; one request
\* for each callsign, `responses` is what happens to them in order
retrieve_locations_from_sondehub(self, instant, responses) ==
    IF too_frequent(instant, self.last_access)
    THEN Polled(self, "TooFrequent", 0)
    ELSE IF self.callsigns = None
    THEN Polled(self, "FailedToEstablish", 0)
    ELSE Bind(sondehub_requests(Unwrap(self.callsigns), responses, 0),
              LAMBDA requested :
                  Polled(IF requested.result = "Ok"
                         THEN [self EXCEPT !.last_access = Some(instant)]
                         ELSE self,
                         requested.result, requested.sent))

LimitedConnections == {"APRS.fi", "SondeHub"}

Responses == {"SendFailure", "ApiError", "Ok"}

CallsignLists == {None, Some(<< "W3EAX-13" >>), Some(<< "W3EAX-13", "W3EAX-14" >>)}

InitLimiter ==
    /\ clock = 0
    /\ limited \in [LimitedConnections ->
                       {[callsigns |-> callsigns, last_access |-> None] :
                           callsigns \in CallsignLists}]
    /\ sent_at = [connection \in LimitedConnections |-> << >>]
    /\ last_poll = NotPolled
    /\ QueryIdle
    /\ LoopIdle
    /\ FlightIdle
    /\ aprs_file = NoFile
    /\ read_result = NotRead
    /\ frontend = "tui"
    /\ start_time = None
    /\ end_time = None
    /\ prediction_configuration = None
    /\ prediction_file = None
    /\ tracks = << >>
    /\ log_messages = << >>
    /\ results = << >>
    /\ counts = [duplicates |-> 0, time_lagged_duplicates |-> 0, skipped |-> 0]
    /\ polled = << >>
    /\ predicted = << >>
    /\ running = TRUE
    /\ ticks = 0

\* what a poll of `connection` that returned `outcome` leaves behind; a poll
\* that sent requests waited `elapsed` seconds for the answers
Record(connection, outcome, elapsed) ==
    /\ limited' = [limited EXCEPT ![connection] = outcome.self]
    /\ sent_at' = IF outcome.sent > 0
                  THEN [sent_at EXCEPT ![connection] = Append(@, clock)]
                  ELSE sent_at
    /\ clock' = IF outcome.sent > 0 THEN clock + elapsed ELSE clock
    /\ last_poll' = [connection |-> connection, instant |-> clock,
                     result |-> outcome.result, sent |-> outcome.sent]

CanPoll(connection) ==
    /\ last_poll.result # "Panic"
    /\ Len(sent_at[connection]) < MaxSends
    /\ clock < MaxClock

\* Connection::retrieve_locations of the APRS.fi connection
poll_aprs_fi ==
    /\ CanPoll("APRS.fi")
    /\ \E response \in Responses, elapsed \in {0, 5} :
         \E outcome \in {retrieve_aprs_from_aprsfi(limited["APRS.fi"], clock, response)} :
            Record("APRS.fi", outcome, elapsed)
    /\ UNCHANGED <<loop_vars, tick_vars, decode_vars, query_vars, flight_vars>>

\* Connection::retrieve_locations of the SondeHub connection
poll_sondehub ==
    /\ CanPoll("SondeHub")
    /\ \E responses \in [1..2 -> Responses], elapsed \in {0, 5} :
         \E outcome \in {retrieve_locations_from_sondehub(limited["SondeHub"], clock, responses)} :
            Record("SondeHub", outcome, elapsed)
    /\ UNCHANGED <<loop_vars, tick_vars, decode_vars, query_vars, flight_vars>>

\* the time between two ticks of the caller
pass_time ==
    /\ clock + 5 <= MaxClock
    /\ clock' = clock + 5
    /\ UNCHANGED <<loop_vars, tick_vars, decode_vars, query_vars, flight_vars,
                   limited, sent_at, last_poll>>

NextLimiter == poll_aprs_fi \/ poll_sondehub \/ pass_time

SpecLimiter == InitLimiter /\ [][NextLimiter]_vars

----------------------------------------------------------------------------
(* The flight state of one track: location/track/mod.rs.                   *)

MaxLocations == 3

\* altitudes of the track: none, the ground, 0.2 m, 1 m, 6 m and 100 m
FlightAltitudes == {None, Some(0), Some(4000), Some(20000), Some(120000), Some(2000000)}

\* locations of one payload, one second or no time apart
FlightLocations(n) ==
    {locations \in [1..n -> {BalloonLocation(time, 0, 0, altitude,
                                 BalloonData_new(None, None, None, None, "None")) :
                                 time \in 1..n, altitude \in FlightAltitudes}] :
        /\ locations[1].location.time = 1
        /\ \A i \in 1..(n - 1) :
              /\ locations[i + 1].location.time - locations[i].location.time \in {0, 1}
              /\ locations[i + 1] # locations[i]}

FlightTracks ==
    {[BalloonTrack_new(<< "other" >>) EXCEPT !.locations = locations] :
        locations \in UNION {FlightLocations(n) : n \in 1..MaxLocations}}

InitFlight ==
    /\ flight_track \in FlightTracks
    /\ flight_report = NotReported
    /\ QueryIdle
    /\ LoopIdle
    /\ LimiterIdle
    /\ aprs_file = NoFile
    /\ read_result = NotRead
    /\ frontend = "tui"
    /\ start_time = None
    /\ end_time = None
    /\ prediction_configuration = None
    /\ prediction_file = None
    /\ tracks = << >>
    /\ log_messages = << >>
    /\ results = << >>
    /\ counts = [duplicates |-> 0, time_lagged_duplicates |-> 0, skipped |-> 0]
    /\ polled = << >>
    /\ predicted = << >>
    /\ running = TRUE
    /\ ticks = 0

\* n * m / d truncated, for n, m >= 0 and d > 0, without forming n * m
MulDiv(n, m, d) == (n \div d) * m + ((n % d) * m) \div d

\* FreefallEstimate::new: time_to_ground = 1695.02 * atan(9.8311e-05 * altitude)
\* seconds, in milliseconds, with atan(x) = x - x^3 / 3 (the next term is
\* below a microsecond up to a hundred metres); the altitude in steps
time_to_ground(altitude) ==
    LET centimetres == altitude \div 200
        metres == altitude \div 20000
    IN  (166639 * centimetres) \div 100000
            - (537 * ((metres * metres * metres) \div 1000)) \div 1000000

NoEstimate == [kind |-> "None", milliseconds |-> 0]
SomeEstimate(milliseconds) == [kind |-> "Some", milliseconds |-> milliseconds]

\* BalloonTrack::estimated_time_to_ground:
\*     ((-ascent_rates.last().unwrap() / altitudes.last().unwrap()) * 1000.0) as i64
\* milliseconds.  The steps of the rate and of the altitude cancel; `as i64`
\* truncates, takes NaN to 0 and saturates an infinite quotient.
estimated_time_to_ground(self) ==
    IF self.locations # << >> /\ descending(self)
    THEN IF Len(altitudes(self.locations)) > 1
         THEN IF ascent_rates(self.locations) = << >>
              THEN [kind |-> "Panic", milliseconds |-> 0]
              ELSE LET rate == Last(ascent_rates(self.locations))
                       altitude == Last(altitudes(self.locations))
                   IN  IF altitude = 0
                       THEN IF rate.num = 0 THEN SomeEstimate(0)
                            ELSE IF rate.num < 0
                                 THEN [kind |-> "SomeMax", milliseconds |-> 0]
                                 ELSE [kind |-> "SomeMin", milliseconds |-> 0]
                       ELSE IF rate.num <= 0
                            THEN SomeEstimate(MulDiv(-rate.num, 1000, rate.den * altitude))
                            ELSE SomeEstimate(-MulDiv(rate.num, 1000, rate.den * altitude))
         ELSE NoEstimate
    ELSE NoEstimate

\* a float at 100 m within 20 m, and a profile without a float
NarrowFloatProfile == new_float(5, Some(2000000), 3600, Some(400000), 600000000, 5)
FlightProfiles == {new_standard(5, 600000000, 5), NarrowFloatProfile}

\* BalloonTrack::ascending, descending and falling of the track, as the
\* track list of the terminal (tui/draw.rs) asks them
flight_state ==
    /\ flight_report = NotReported
    /\ flight_report' = [kind |-> "Reported",
                         ascending |-> ascending(flight_track),
                         descending |-> descending(flight_track),
                         falling |-> falling(flight_track)]
    /\ UNCHANGED <<loop_vars, tick_vars, decode_vars, query_vars, limiter_vars, flight_track>>

\* BalloonTrack::estimated_time_to_ground of the track, as track_update asks it
ground_estimate ==
    /\ flight_report = NotReported
    /\ flight_report' = [kind |-> "Estimated",
                         time_to_ground |-> estimated_time_to_ground(flight_track)]
    /\ UNCHANGED <<loop_vars, tick_vars, decode_vars, query_vars, limiter_vars, flight_track>>

\* BalloonTrack::prediction of the track, up to the query it sends
flight_query ==
    /\ flight_report = NotReported
    /\ \E profile \in FlightProfiles :
          flight_report' = [kind |-> "Queried",
                            profile |-> profile,
                            query |-> prediction_query(flight_track, profile)]
    /\ UNCHANGED <<loop_vars, tick_vars, decode_vars, query_vars, limiter_vars, flight_track>>

NextFlight ==
    \/ flight_state
    \/ ground_estimate
    \/ flight_query

SpecFlight == InitFlight /\ [][NextFlight]_vars

----------------------------------------------------------------------------
(* The loop of the terminal: tui/mod.rs run_app, tui/app.rs on_key and     *)
(* on_tick.  The loop is one thread; the terminal queues key presses and   *)
(* time passes while it runs.  A call of on_tick is followed through its   *)
(* connection polls, its ingestion and its prediction queries.             *)

\* the tick interval, in units of time
TickRate == 2
\* key presses the terminal holds at most
MaxEvents == 2
\* connections of the configuration, tracks with a prediction to ask for
MaxConnections == 2
MaxPredictions == 2
\* ticks of which the origin is remembered
MaxStarted == 3
\* the tabs of the terminal: the log and one track
TabCount == 2

\* Esc and 'q'; 'r' and ' '; Tab and Right
Keys == {"q", "r", "Tab"}

InitLoop ==
    /\ \E connections \in 1..MaxConnections :
          \* last_tick = Instant::now() - tick_rate
          app_loop = [pc |-> "draw", connections |-> connections,
                      should_quit |-> FALSE, since_tick |-> TickRate,
                      tab |-> 0, started |-> << >>]
    /\ events = << >>
    /\ activations = << >>
    /\ QueryIdle
    /\ FlightIdle
    /\ LimiterIdle
    /\ aprs_file = NoFile
    /\ read_result = NotRead
    /\ frontend = "tui"
    /\ start_time = None
    /\ end_time = None
    /\ prediction_configuration = None
    /\ prediction_file = None
    /\ tracks = << >>
    /\ log_messages = << >>
    /\ results = << >>
    /\ counts = [duplicates |-> 0, time_lagged_duplicates |-> 0, skipped |-> 0]
    /\ polled = << >>
    /\ predicted = << >>
    /\ running = TRUE
    /\ ticks = 0

loop_frame == UNCHANGED <<tick_vars, decode_vars, query_vars, flight_vars, limiter_vars>>

Exited == app_loop.pc = "done"

\* the terminal: a key is pressed, whatever the loop is doing
press_key ==
    /\ ~Exited
    /\ Len(events) < MaxEvents
    /\ \E key \in Keys : events' = Append(events, key)
    /\ UNCHANGED <<app_loop, activations>>
    /\ loop_frame

\* the clock: last_tick.elapsed() grows, whatever the loop is doing; only
\* whether it has reached tick_rate is read
elapse ==
    /\ ~Exited
    /\ app_loop.since_tick < TickRate
    /\ app_loop' = [app_loop EXCEPT !.since_tick = @ + 1]
    /\ UNCHANGED <<events, activations>>
    /\ loop_frame

\* on_tick is entered: retrieve_locations has every connection to poll
call_on_tick(origin) ==
    [origin |-> origin, phase |-> "retrieve",
     polls_left |-> app_loop.connections, predictions_left |-> 0]

remember(origin) ==
    IF Len(app_loop.started) < MaxStarted
    THEN Append(app_loop.started, origin)
    ELSE app_loop.started

\* run_app: terminal.draw
draw ==
    /\ app_loop.pc = "draw"
    /\ app_loop' = [app_loop EXCEPT !.pc = "poll"]
    /\ UNCHANGED <<events, activations>>
    /\ loop_frame

\* a key handler that the terminal calls as a key is pressed
at_any_point == ~Exited

\* run_app reads a key only where it calls crossterm::event::poll
at_event_poll == app_loop.pc = "poll"

\* run_app: event::poll returns true, event::read, app.on_key(key.code)
read_event ==
    /\ at_event_poll
    /\ events # << >>
    /\ events' = Tail(events)
    /\ \/ /\ Head(events) = "q"
          /\ app_loop' = [app_loop EXCEPT !.should_quit = TRUE, !.pc = "timer"]
          /\ UNCHANGED activations
       \/ /\ Head(events) = "r"
          /\ app_loop' = [app_loop EXCEPT !.pc = "on_tick",
                                          !.started = remember("key")]
          /\ activations' = Append(activations, call_on_tick("key"))
       \/ /\ Head(events) = "Tab"
          /\ app_loop' = [app_loop EXCEPT !.tab = (@ + 1) % TabCount,
                                          !.pc = "timer"]
          /\ UNCHANGED activations
    /\ loop_frame

\* run_app: event::poll returns false after tick_rate - last_tick.elapsed()
poll_timeout ==
    /\ at_event_poll
    /\ events = << >>
    /\ app_loop' = [app_loop EXCEPT !.since_tick = TickRate, !.pc = "timer"]
    /\ UNCHANGED <<events, activations>>
    /\ loop_frame

\* run_app: if last_tick.elapsed() >= tick_rate { app.on_tick(); ... }
timer_tick ==
    /\ app_loop.pc = "timer"
    /\ IF app_loop.since_tick >= TickRate
       THEN /\ app_loop' = [app_loop EXCEPT !.pc = "on_tick",
                                            !.started = remember("timer")]
            /\ activations' = Append(activations, call_on_tick("timer"))
       ELSE /\ app_loop' = [app_loop EXCEPT !.pc = "quit"]
            /\ UNCHANGED activations
    /\ UNCHANGED events
    /\ loop_frame

\* the innermost call of on_tick
Running == Last(activations)
Step(activation) == [activations EXCEPT ![Len(activations)] = activation]

\* on_tick, retrieve_locations: one connection is polled
tick_poll ==
    /\ activations # << >>
    /\ Running.phase = "retrieve"
    /\ Running.polls_left > 0
    /\ activations' = Step([Running EXCEPT !.polls_left = @ - 1])
    /\ UNCHANGED <<app_loop, events>>
    /\ loop_frame

\* on_tick, retrieve_locations: the packets of all connections are ingested;
\* some number of tracks results
tick_ingest ==
    /\ activations # << >>
    /\ Running.phase = "retrieve"
    /\ Running.polls_left = 0
    /\ \E predictions \in 0..MaxPredictions :
          activations' = Step([Running EXCEPT !.phase = "predict",
                                              !.predictions_left = predictions])
    /\ UNCHANGED <<app_loop, events>>
    /\ loop_frame

\* on_tick: the prediction of one track is asked for
tick_predict ==
    /\ activations # << >>
    /\ Running.phase = "predict"
    /\ Running.predictions_left > 0
    /\ activations' = Step([Running EXCEPT !.predictions_left = @ - 1])
    /\ UNCHANGED <<app_loop, events>>
    /\ loop_frame

\* on_tick returns: to on_key, which returns to the loop before the timer
\* test, or to the timer branch, which sets last_tick = Instant::now()
tick_return ==
    /\ activations # << >>
    /\ Running.phase = "predict"
    /\ Running.predictions_left = 0
    /\ activations' = SubSeq(activations, 1, Len(activations) - 1)
    /\ app_loop' = IF Running.origin = "timer"
                   THEN [app_loop EXCEPT !.since_tick = 0, !.pc = "quit"]
                   ELSE [app_loop EXCEPT !.pc = "timer"]
    /\ UNCHANGED events
    /\ loop_frame

\* run_app: if app.should_quit { return Ok(()) }
check_quit ==
    /\ app_loop.pc = "quit"
    /\ app_loop' = [app_loop EXCEPT !.pc = IF app_loop.should_quit
                                           THEN "done" ELSE "draw"]
    /\ UNCHANGED <<events, activations>>
    /\ loop_frame

NextLoop ==
    \/ press_key
    \/ elapse
    \/ draw
    \/ read_event
    \/ poll_timeout
    \/ timer_tick
    \/ tick_poll
    \/ tick_ingest
    \/ tick_predict
    \/ tick_return
    \/ check_quit

SpecLoop == InitLoop /\ [][NextLoop]_vars

----------------------------------------------------------------------------
(* Properties of the track engine.                                         *)

Processed == {i \in 1..Len(results) : results[i].outcome # "skipped"}

\* C1: every track's locations are sorted ascending by time, whatever the
\* order in which the records arrived.
C1_TracksSorted ==
    \A i \in 1..Len(tracks) :
        \A j \in 1..(Len(tracks[i].locations) - 1) :
            tracks[i].locations[j].location.time
                <= tracks[i].locations[j + 1].location.time

\* a record older than the last location of its track has been pushed
C1_OutOfOrderPushed ==
    \E i \in Processed :
        /\ results[i].outcome = "pushed"
        /\ results[i].before # << >>
        /\ Last(results[i].before).location.time > results[i].packet.location.time
        /\ Len(results[i].after) = Len(results[i].before) + 1

\* C2: a record whose location is tolerance-equal to the location of a
\* record already in its track leaves the track's length unchanged and is
\* classified Duplicate.
C2_DuplicateDropped ==
    \A i \in Processed :
        (\E j \in 1..Len(results[i].before) :
            Location_eq(results[i].packet.location, results[i].before[j].location))
        => /\ results[i].outcome = "Duplicate"
           /\ Len(results[i].after) = Len(results[i].before)

\* coordinate and altitude within 1e-4 of each other, timestamps different
LagMatch(a, b) ==
    /\ a.time # b.time
    /\ Abs(a.x - b.x) < 2
    /\ Abs(a.y - b.y) < 2
    /\ IsSome(a.altitude) /\ IsSome(b.altitude)
    /\ Abs(Unwrap(a.altitude) - Unwrap(b.altitude)) < 2

\* C3: a record that matches an existing record of its track in coordinate
\* and altitude within 1e-4, but not in timestamp, is classified
\* TimeLaggedDuplicate, is counted as one and is not added to the track.
C3_TimeLagClassified ==
    /\ \A i \in Processed :
        (\E j \in 1..Len(results[i].before) :
            LagMatch(results[i].packet.location, results[i].before[j].location))
        => /\ results[i].outcome = "TimeLaggedDuplicate"
           /\ results[i].after = results[i].before
    /\ counts.time_lagged_duplicates =
           Cardinality({i \in Processed : results[i].outcome = "TimeLaggedDuplicate"})

\* a record one tolerance step away from an existing one, at another time,
\* has been classified
C3_TimeLagSeen ==
    \E i \in Processed :
        /\ results[i].outcome = "TimeLaggedDuplicate"
        /\ \E j \in 1..Len(results[i].before) :
            /\ LagMatch(results[i].packet.location, results[i].before[j].location)
            /\ results[i].packet.location.x # results[i].before[j].location.x

\* C4: no track holds two records whose locations are equal under the
\* tolerance relation.
C4_NoEqualLocations ==
    \A i \in 1..Len(tracks) :
        \A j, k \in 1..Len(tracks[i].locations) :
            j < k => ~Location_eq(tracks[i].locations[j].location,
                                  tracks[i].locations[k].location)

\* C5: tracks are append-only: no track is removed or renamed, and every
\* record of a track stays in it.
C5_AppendOnly ==
    [][/\ Len(tracks') >= Len(tracks)
       /\ \A i \in 1..Len(tracks) :
            /\ tracks'[i].name = tracks[i].name
            /\ Len(tracks'[i].locations) >= Len(tracks[i].locations)
            /\ \A j \in 1..Len(tracks[i].locations) :
                \E k \in 1..Len(tracks'[i].locations) :
                    tracks'[i].locations[k] = tracks[i].locations[j]]_vars

\* a track that already held a record has been re-sorted around a new one
C5_TrackGrew ==
    \E i \in Processed :
        /\ results[i].outcome = "pushed"
        /\ results[i].before # << >>
        /\ Last(results[i].after) # results[i].packet

OutOfWindow(packet) ==
    \/ IsSome(start_time) /\ packet.location.time < Unwrap(start_time)
    \/ IsSome(end_time) /\ packet.location.time > Unwrap(end_time)

InSomeTrack(packet, tracks_) ==
    \E i \in 1..Len(tracks_) : \E j \in 1..Len(tracks_[i].locations) :
        tracks_[i].locations[j] = packet

\* C6: a record sent before the configured start time or after the
\* configured end time is counted as skipped, enters no track and creates
\* none; a record sent exactly at the start or end time is not skipped.
C6_WindowFilter ==
    [][/\ \A i \in 1..Len(results') :
            /\ OutOfWindow(results'[i].packet)
                => /\ results'[i].outcome = "skipped"
                   /\ ~InSomeTrack(results'[i].packet, tracks')
                   /\ ~results'[i].created
            /\ ~OutOfWindow(results'[i].packet) => results'[i].outcome # "skipped"
       /\ counts'.skipped =
            Cardinality({i \in 1..Len(results') : OutOfWindow(results'[i].packet)})
       /\ Len(tracks') - Len(tracks) =
            Cardinality({i \in 1..Len(results') : results'[i].created})]_vars

\* one record of a batch was skipped and another, sent exactly at the
\* bound, was taken
C6_SkippedAndKept ==
    /\ \E i \in 1..Len(results) : results[i].outcome = "skipped"
    /\ \E i \in Processed :
        /\ results[i].outcome = "pushed"
        /\ Some(results[i].packet.location.time) \in {start_time, end_time}

\* C7: every record a track holds is filed under its source callsign, and
\* under "other" only when it has none.
C7_FiledByCallsign ==
    \A i \in 1..Len(tracks) :
        \A j \in 1..Len(tracks[i].locations) :
            LET callsign == tracks[i].locations[j].data.callsign
            IN  tracks[i].name = IF IsSome(callsign) THEN Unwrap(callsign)
                                 ELSE << "other" >>

\* both a callsign track and the "other" track hold records
C7_BothKinds ==
    /\ \E i \in 1..Len(tracks) :
        tracks[i].name = << "other" >> /\ tracks[i].locations # << >>
    /\ \E i \in 1..Len(tracks) :
        tracks[i].name # << "other" >> /\ tracks[i].locations # << >>

----------------------------------------------------------------------------
(* Properties of one tick.                                                 *)

RECURSIVE Flatten(_)
Flatten(seqs) == IF seqs = << >> THEN << >> ELSE seqs[1] \o Flatten(Tail(seqs))

\* C8: when the poll of one connection fails in a tick, every connection
\* has still been polled, each failure is an Error entry of the log, the
\* records of the other connections have been ingested and the process is
\* still running.
C8_FailedPollTolerated ==
    (\E i \in 1..Len(polled) : ~polled[i].ok)
    => /\ running
       /\ Len(polled) = 2
       /\ \A i \in 1..Len(polled) :
            ~polled[i].ok
            => \E m \in 1..Len(log_messages) :
                   log_messages[m] = Message("Error", polled[i].error)
       /\ [i \in 1..Len(results) |-> results[i].packet]
              = Flatten([i \in 1..Len(polled) |-> polled[i].packets])

----------------------------------------------------------------------------
(* The APRS frame decoder, location/aprs.rs, and the text file that feeds  *)
(* it, connection/text/file.rs.                                            *)
(*                                                                         *)
(* A frame is described by what aprs_parser makes of it: whether it        *)
(* decodes, the kind of its data, the compression type of a position,      *)
(* whether its comment carries "/A=dddddd" (comment.altitude), and its     *)
(* timestamp.  Frames come from lines of text, so they are valid UTF-8 and *)
(* the String::from_utf8(..).unwrap() calls of the decoder cannot fail.    *)
(* A call returns ParseOk(value), ParseErr(error) or Panic.                *)

\* 0.3048 m, in steps of 5e-5 m
M_PER_FT == 6096

\* the clock read by chrono::offset::Utc::now() and Local::now()
now == MaxTime

parse_aprs_comment_altitude_feet(comment) ==
    IF IsSome(comment.altitude)
    THEN ParseOk(Unwrap(comment.altitude))
    ELSE ParseErr("NoAltitudeInComment")

\* the altitude of a Position payload, in feet
position_altitude_feet(payload) ==
    CASE payload.cst = "CompressedAltitude" -> ParseOk(Unwrap(payload.cs_altitude))
      [] payload.cst = "CompressedOther" -> ParseErr("NoAltitudeInCompressedData")
      [] OTHER -> unwrap(parse_aprs_comment_altitude_feet(payload.comment))

\* the time of a Position payload
position_time(payload, time) ==
    IF IsSome(time) THEN ParseOk(Unwrap(time))
    ELSE CASE payload.timestamp.kind = "None" -> ParseOk(now)
           [] payload.timestamp.kind = "DDHHMM" ->
                  IF payload.timestamp.in_month
                  THEN ParseOk(payload.timestamp.time)
                  ELSE Panic
           [] payload.timestamp.kind = "HHMMSS" -> ParseOk(payload.timestamp.time)
           [] OTHER -> ParseErr("InvalidTimestamp")

\* the time of a MicE payload
mic_e_time(payload, time) ==
    IF IsSome(time) THEN ParseOk(Unwrap(time))
    ELSE IF payload.current THEN ParseOk(now)
    ELSE ParseErr("MicEPacketNotCurrent")

decoded_location(frame, packet_time, altitude_feet) ==
    BalloonLocation(packet_time, frame.longitude, frame.latitude,
                    Some(altitude_feet * M_PER_FT),
                    BalloonData_new(None, Some(AprsPacket(frame.from)), None,
                                    Some(frame), "None"))

\* BalloonLocation::from_aprs_frame
from_aprs_frame(frame, time) ==
    IF ~frame.decodes THEN ParseErr("InvalidFrame")
    ELSE IF frame.data \notin {"Position", "MicE"} THEN ParseErr("NoPosition")
    ELSE LET altitude_feet ==
                 IF frame.data = "Position"
                 THEN position_altitude_feet(frame)
                 ELSE unwrap(parse_aprs_comment_altitude_feet(frame.comment))
             packet_time == IF frame.data = "Position"
                            THEN position_time(frame, time)
                            ELSE mic_e_time(frame, time)
         IN  IF altitude_feet.kind # "Ok" THEN altitude_feet
             ELSE IF packet_time.kind # "Ok" THEN packet_time
             ELSE ParseOk(decoded_location(frame, packet_time.value,
                                           altitude_feet.value))

\* the line as read_aprs_from_file splits it: a line that contains ": " is
\* cut at the first one, the head is tried as a time and the rest is the
\* frame.  A frame cut inside its own text no longer decodes.
line_frame(line) ==
    IF line.prefix = "None" /\ line.frame.colon_space
    THEN [line.frame EXCEPT !.decodes = FALSE]
    ELSE line.frame

\* Ok(Some(time)), Ok(None), or a panic when the local time does not exist
line_time(line) ==
    CASE line.prefix = "Time" -> ParseOk(Some(line.time))
      [] line.prefix = "NoLocalTime" -> Panic
      [] OTHER -> ParseOk(None)

\* the loop of read_aprs_from_file over the lines of the file
RECURSIVE read_lines_loop(_, _, _)
read_lines_loop(self, i, locations) ==
    IF i > Len(self.lines) THEN ParseOk(locations)
    ELSE LET time == line_time(self.lines[i])
             location == from_aprs_frame(line_frame(self.lines[i]), time.value)
         IN  IF time.kind = "Panic" THEN Panic
             ELSE IF location.kind = "Panic" THEN Panic
             ELSE IF location.kind = "Err"
             THEN read_lines_loop(self, i + 1, locations)
             ELSE IF /\ IsSome(self.callsigns)
                     /\ Unwrap(location.value.data.callsign)
                            \notin Unwrap(self.callsigns)
             THEN read_lines_loop(self, i + 1, locations)
             ELSE read_lines_loop(self, i + 1,
                                  Append(locations, location.value))

\* read_lines of a local file: the file cannot be opened, or a line of it
\* is not UTF-8 (line.unwrap()), or its lines
read_lines(self) ==
    IF ~self.readable THEN ParseErr("FailedToEstablish")
    ELSE IF \E i \in 1..Len(self.lines) : ~self.lines[i].utf8 THEN Panic
    ELSE ParseOk(self.lines)

\* AprsTextFile::read_aprs_from_file, as a function of the file
read_aprs_from_file_result(self) ==
    IF read_lines(self).kind # "Ok" THEN read_lines(self)
    ELSE read_lines_loop(self, 1, << >>)

(* The frames and files explored.                                          *)

Timestamp(kind, in_month) == [kind |-> kind, in_month |-> in_month, time |-> 1]
NoTimestamp == Timestamp("None", TRUE)
Timestamps ==
    {NoTimestamp, Timestamp("DDHHMM", TRUE), Timestamp("DDHHMM", FALSE),
     Timestamp("HHMMSS", TRUE), Timestamp("Other", TRUE)}

Comment(altitude) == [altitude |-> altitude]

Frame(decodes, data, from, cst, cs_altitude, comment, timestamp, current, colon) ==
    [decodes |-> decodes, data |-> data, from |-> from, cst |-> cst,
     cs_altitude |-> cs_altitude, comment |-> comment, timestamp |-> timestamp,
     current |-> current, colon_space |-> colon, longitude |-> 0, latitude |-> 0]

Senders == Callsigns \cup {[call |-> "N0CALL", ssid |-> None]}

FeetInComment == Some(100)

PositionFrames ==
    {Frame(TRUE, "Position", from, "CompressedAltitude", Some(100), Comment(None),
           ts, FALSE, FALSE) : from \in Senders, ts \in Timestamps}
    \cup {Frame(TRUE, "Position", from, "CompressedOther", None, Comment(None),
                NoTimestamp, FALSE, FALSE) : from \in Senders}
    \cup {Frame(TRUE, "Position", from, cst, None, Comment(None),
                NoTimestamp, FALSE, FALSE) :
              from \in Senders, cst \in {"Uncompressed", "CompressedNone"}}
    \cup {Frame(TRUE, "Position", from, cst, None, Comment(FeetInComment),
                ts, FALSE, FALSE) :
              from \in Senders, cst \in {"Uncompressed", "CompressedNone"},
              ts \in Timestamps}

MicEFrames ==
    {Frame(TRUE, "MicE", from, "None", None, Comment(None), NoTimestamp,
           TRUE, FALSE) : from \in Senders}
    \cup {Frame(TRUE, "MicE", from, "None", None, Comment(FeetInComment),
                NoTimestamp, current, FALSE) :
              from \in Senders, current \in BOOLEAN}

OtherFrames ==
    {Frame(TRUE, "Status", CHOOSE from \in Callsigns : TRUE, "None", None,
           Comment(None), NoTimestamp, FALSE, FALSE),
     Frame(FALSE, "None", CHOOSE from \in Callsigns : TRUE, "None", None,
           Comment(None), NoTimestamp, FALSE, FALSE),
     Frame(TRUE, "Position", CHOOSE from \in Callsigns : TRUE, "Uncompressed",
           None, Comment(FeetInComment), NoTimestamp, FALSE, TRUE)}

Frames == PositionFrames \cup MicEFrames \cup OtherFrames

Line(prefix, frame, utf8) ==
    [prefix |-> prefix, time |-> MaxTime, frame |-> frame, utf8 |-> utf8]

Lines ==
    {Line(prefix, frame, TRUE) :
         prefix \in {"None", "Unparseable", "Time", "NoLocalTime"},
         frame \in Frames}
    \cup {Line("None", CHOOSE frame \in Frames : ~frame.decodes, FALSE)}

Files ==
    UNION {[1..n -> Lines] : n \in 0..MaxLines}

AprsTextFiles ==
    {NoFile}
    \cup {[readable |-> TRUE, lines |-> lines, callsigns |-> callsigns] :
              lines \in Files,
              callsigns \in {None, Some({callsign_to_string(c) : c \in Callsigns})}}

InitDecode ==
    /\ aprs_file \in AprsTextFiles
    /\ read_result = NotRead
    /\ QueryIdle
    /\ LoopIdle
    /\ FlightIdle
    /\ LimiterIdle
    /\ frontend = "tui"
    /\ start_time = None
    /\ end_time = None
    /\ prediction_configuration = None
    /\ prediction_file = None
    /\ tracks = << >>
    /\ log_messages = << >>
    /\ results = << >>
    /\ counts = [duplicates |-> 0, time_lagged_duplicates |-> 0, skipped |-> 0]
    /\ polled = << >>
    /\ predicted = << >>
    /\ running = TRUE
    /\ ticks = 0

\* connection/text/file.rs, AprsTextFile::read_aprs_from_file: one poll of
\* the file; a panic inside it ends the process
read_aprs_from_file ==
    /\ running
    /\ read_result = NotRead
    /\ \E result \in {read_aprs_from_file_result(aprs_file)} :
           /\ read_result' = result
           /\ running' = (result.kind # "Panic")
    /\ UNCHANGED <<loop_vars, frontend, start_time, end_time, prediction_configuration,
                   prediction_file, tracks, log_messages, results, counts,
                   polled, predicted, ticks, aprs_file, query_vars, flight_vars, limiter_vars>>

NextDecode == read_aprs_from_file

SpecDecode == InitDecode /\ [][NextDecode]_vars

(* Properties of the decoder.                                              *)

\* the comment of the frame is consulted for the altitude and has none
NoAltitudeInComment(frame) ==
    /\ frame.decodes
    /\ \/ frame.data = "MicE"
       \/ frame.data = "Position" /\ frame.cst \in {"Uncompressed", "CompressedNone"}
    /\ frame.comment.altitude = None

\* the frames of the file that decode to a record, in the order of the file
RECURSIVE ParseableRecords(_, _)
ParseableRecords(self, i) ==
    IF i > Len(self.lines) THEN << >>
    ELSE LET time == line_time(self.lines[i])
             location == from_aprs_frame(line_frame(self.lines[i]), time.value)
             kept == /\ time.kind = "Ok"
                     /\ location.kind = "Ok"
                     /\ \/ self.callsigns = None
                        \/ Unwrap(location.value.data.callsign)
                               \in Unwrap(self.callsigns)
         IN  (IF kept THEN << location.value >> ELSE << >>)
                 \o ParseableRecords(self, i + 1)

\* C9: a frame that cannot be decoded never aborts the read of the file:
\* once the lines of the file are read as text, the read returns, with
\* every record of the frames that do decode, and a frame whose comment
\* lacks the altitude is the error NoAltitudeInComment of the decoder.
C9_UnparseableFrameSkipped ==
    (read_result # NotRead /\ read_lines(aprs_file).kind = "Ok")
    => /\ running
       /\ read_result = ParseOk(ParseableRecords(aprs_file, 1))
       /\ \A i \in 1..Len(aprs_file.lines) :
            LET frame == line_frame(aprs_file.lines[i])
            IN  NoAltitudeInComment(frame) /\ line_time(aprs_file.lines[i]).kind = "Ok"
                => from_aprs_frame(frame, line_time(aprs_file.lines[i]).value)
                       = ParseErr("NoAltitudeInComment")

----------------------------------------------------------------------------
(* Properties of the prediction refresh.                                   *)

\* the prediction query of the track failed: with a TawhiriError, or
\* because the request to the service (or to the descent it is stitched
\* with) failed
QueryFailed(outcome) ==
    \/ outcome.kind = "Err"
    \/ /\ outcome.kind = "Panic"
       /\ outcome.error \in {"error retrieving prediction",
                             "descent_query.get().unwrap()"}

\* C10: when the prediction query of a track fails in a tick, the tick
\* still completes, the prediction has been attempted for every track, and
\* the failure is an Error entry of the log.
C10_FailedPredictionIsolated ==
    (\E i \in 1..Len(predicted) : QueryFailed(predicted[i]))
    => /\ running
       /\ Len(predicted) = Len(tracks)
       /\ \A i \in 1..Len(predicted) :
            QueryFailed(predicted[i])
            => \E m \in 1..Len(log_messages) : log_messages[m].level = "Error"

\* C11: when the prediction query of a track fails in a tick, the predicted
\* locations of that track after the tick are what they were before it
\* (none, for a track the tick created).
C11_FailedPredictionRetained ==
    [][\A i \in 1..Len(predicted') :
           predicted'[i].kind = "Err"
           => tracks'[i].prediction
                  = (IF i <= Len(tracks) THEN tracks[i].prediction ELSE None)]_vars

----------------------------------------------------------------------------
(* Properties of one query to the prediction service.                      *)

Asked == query_result # NotAsked

Answered(response) == response.sent /\ response.status = "OK" /\ response.json

\* the request carries profile=float_profile and the service answers it with
\* a float stage and no descent stage
FloatWithoutDescent ==
    /\ parameters(tawhiri_query).kind = "Ok"
    /\ parameters(tawhiri_query).value.profile = Some("float_profile")
    /\ Answered(service[1])
    /\ service[1].request = "float_profile"
    /\ ~HasStage(service[1].prediction, "descent")
    /\ HasStage(service[1].prediction, "float")
    /\ FirstStage(service[1].prediction, "float").trajectory # << >>

\* the request that the stitch sends: descent-only (the burst is 0.1 m above
\* the start), standard profile, from `point` of the service's answer
DescentRequestFrom(point, descent_rate) ==
    [launch_longitude |-> point.longitude,
     launch_latitude |-> point.latitude,
     launch_datetime |-> point.datetime,
     ascent_rate |-> 10,
     burst_altitude |-> point.altitude + 2000,
     descent_rate |-> descent_rate,
     launch_altitude |-> Some(point.altitude),
     profile |-> Some("standard_profile"),
     float_altitude |-> None,
     stop_datetime |-> None]

\* C12: a float_profile request answered with a float stage and no descent
\* stage is followed by exactly one more request, descent-only with a
\* standard profile, from the last point of the float stage at the same
\* sea-level descent rate; the locations returned are those of the stages of
\* the first answer in order, then those of the descent stage of the second.
C12_FloatStitched ==
    (Asked /\ FloatWithoutDescent /\ Answered(service[2])
        /\ HasStage(service[2].prediction, "descent"))
    => /\ query_result.kind = "Ok"
       /\ Len(query_result.requests) = 2
       /\ query_result.requests[2]
            = DescentRequestFrom(
                  Last(FirstStage(service[1].prediction, "float").trajectory),
                  tawhiri_query.profile.sea_level_descent_rate)
       /\ query_result.value
            = stage_locations(service[1].prediction
                              \o << FirstStage(service[2].prediction, "descent") >>)

C12_StitchedFromLongFloat ==
    /\ Asked /\ FloatWithoutDescent /\ Answered(service[2])
    /\ HasStage(service[2].prediction, "descent")
    /\ Len(FirstStage(service[1].prediction, "float").trajectory) = 2
    /\ Len(query_result.value) = 4

\* C13: a float_profile request answered without a descent stage and without
\* a float stage fails with NoFloatStage: one request was sent and there are
\* no locations.
C13_NoFloatStage ==
    (/\ Asked
     /\ parameters(tawhiri_query).kind = "Ok"
     /\ parameters(tawhiri_query).value.profile = Some("float_profile")
     /\ Answered(service[1])
     /\ service[1].request = "float_profile"
     /\ ~HasStage(service[1].prediction, "descent")
     /\ ~HasStage(service[1].prediction, "float"))
    => /\ query_result.kind = "Err"
       /\ query_result.error = "NoFloatStage"
       /\ Len(query_result.requests) = 1
       /\ query_result.value = << >>

C13_AscentOnlyAnswer ==
    /\ Asked
    /\ parameters(tawhiri_query).kind = "Ok"
    /\ parameters(tawhiri_query).value.profile = Some("float_profile")
    /\ service[1] = FloatResponse(<< ascent_stage >>)
    /\ query_result.error = "NoFloatStage"

\* C14: a descent-only query whose answer, stitched or not, has no descent
\* stage fails with NoDescentStage and returns no locations.  (An answer that
\* is stitched ends with a descent stage, so the answers without one are the
\* ones left as they came.)
C14_NoDescentStage ==
    (/\ Asked
     /\ tawhiri_query.descent_only
     /\ parameters(tawhiri_query).kind = "Ok"
     /\ Answered(service[1])
     /\ service[1].request # "float_profile"
     /\ ~HasStage(service[1].prediction, "descent"))
    => /\ query_result.kind = "Err"
       /\ query_result.error = "NoDescentStage"
       /\ query_result.value = << >>

C14_DescentOnlyWithoutDescent ==
    /\ Asked
    /\ tawhiri_query.descent_only
    /\ service[1] = StandardResponse(<< ascent_stage, float_stage >>)
    /\ query_result.error = "NoDescentStage"

\* C15: a descent-only query from altitude a sends burst_altitude = a + 0.1 m
\* whatever the burst altitude of the profile; from a start without altitude
\* it fails with RequestError and sends nothing.
C15_DescentOnlyBurst ==
    (Asked /\ tawhiri_query.descent_only)
    => IF IsSome(tawhiri_query.start.altitude)
       THEN /\ Len(query_result.requests) >= 1
            /\ query_result.requests[1].burst_altitude
                 = Unwrap(tawhiri_query.start.altitude) + 2000
       ELSE /\ query_result.kind = "Err"
            /\ query_result.error = "RequestError"
            /\ query_result.requests = << >>

C15_BurstAtHighAltitude ==
    /\ Asked
    /\ tawhiri_query.descent_only
    /\ tawhiri_query.start.altitude = Some(HighAltitude)
    /\ query_result.kind = "Ok"
    /\ query_result.requests[1].burst_altitude = HighAltitude + 2000
    /\ tawhiri_query.profile.burst_altitude # HighAltitude + 2000

C15_NoAltitudeNoRequest ==
    /\ Asked
    /\ tawhiri_query.descent_only
    /\ tawhiri_query.start.altitude = None
    /\ query_result.error = "RequestError"

\* the longitude that the service's point at the launch longitude of the
\* first request comes back with
returned_longitude ==
    to_balloon_location(
        [TawhiriLocation(0) EXCEPT
            !.longitude = query_result.requests[1].launch_longitude]).location.x

Sent == Asked /\ query_result.requests # << >>

\* C16 as stated: every longitude of [-180, 180] comes back from the 0-360
\* form of the request as itself.
C16_RoundTripClosed ==
    Sent => returned_longitude = tawhiri_query.start.x

\* C16: every longitude x with -180 < x <= 180 comes back from the 0-360 form
\* of the request as itself; -180 comes back as 180, the same meridian.
C16_RoundTrip ==
    Sent => returned_longitude
                = (IF tawhiri_query.start.x = -HalfTurn
                   THEN HalfTurn ELSE tawhiri_query.start.x)

C16_WestWrapped ==
    /\ Sent
    /\ tawhiri_query.start.x = -1
    /\ query_result.requests[1].launch_longitude = 2 * HalfTurn - 1
    /\ returned_longitude = -1

----------------------------------------------------------------------------
(* Properties of the connections that limit their polls.                   *)

\* a poll of `connection` at less than the interval from its recorded access
\* returns TooFrequent at once and sends nothing, any other poll is not
\* answered TooFrequent, and the poll leaves the other connection alone
Limited(connection) ==
    /\ IF /\ IsSome(limited[connection].last_access)
          /\ clock - Unwrap(limited[connection].last_access) < 10
       THEN /\ last_poll'.result = "TooFrequent"
            /\ last_poll'.sent = 0
            /\ sent_at' = sent_at
            /\ clock' = clock
       ELSE last_poll'.result # "TooFrequent"
    /\ \A other \in LimitedConnections \ {connection} :
           limited'[other] = limited[other]

\* C17: a poll of APRS.fi or SondeHub less than 10 s after the last recorded
\* access of that connection returns TooFrequent without sending a request
\* and without waiting; a poll at 10 s or more is not rejected as
\* TooFrequent; the limiter of one connection is untouched by a poll of the
\* other.
C17_TooFrequent ==
    [][/\ poll_aprs_fi => Limited("APRS.fi")
       /\ poll_sondehub => Limited("SondeHub")]_vars

C17_RejectedThenAccepted ==
    /\ last_poll.connection = "APRS.fi"
    /\ last_poll.result = "TooFrequent"
    /\ limited["APRS.fi"].last_access = Some(10)
    /\ limited["SondeHub"].last_access = Some(5)
    /\ sent_at["APRS.fi"] = << 0, 10 >>

\* C18: the polls of one connection that sent requests are 10 s or more
\* apart, also when some of them ended in an API error.
C18_SendsApart ==
    \A connection \in LimitedConnections :
        \A i, j \in 1..Len(sent_at[connection]) :
            i < j => sent_at[connection][j] - sent_at[connection][i] >= 10

----------------------------------------------------------------------------
(* Properties of the flight state of a track.                              *)

Reported == flight_report.kind = "Reported"

Samples == ascent_rates(flight_track.locations)

\* C19: ascending (descending) is true exactly when the track has two or more
\* ascent rates and the last two are both above (below) 0.2 m/s; with no
\* rate or one rate both are false.
C19_AscendingDescending ==
    Reported
    => /\ flight_report.ascending
            <=> /\ Len(Samples) >= 2
                /\ RateAbove(Samples[Len(Samples)])
                /\ RateAbove(Samples[Len(Samples) - 1])
       /\ flight_report.descending
            <=> /\ Len(Samples) >= 2
                /\ RateBelow(Samples[Len(Samples)])
                /\ RateBelow(Samples[Len(Samples) - 1])

\* the observed rate differs from the rate of the freefall model at the last
\* altitude by less than the uncertainty of the model, in either direction;
\* a rate of num/den steps per second is num / (20 den) mm/s
WithinModel ==
    /\ Samples # << >>
    /\ IsSome(Last(flight_track.locations).location.altitude)
    /\ Abs(Last(Samples).num
             - 20 * Last(Samples).den
                  * FreefallEstimate_new(
                        Unwrap(Last(flight_track.locations).location.altitude)).ascent_rate)
         < 20 * Last(Samples).den
              * FreefallEstimate_new(
                    Unwrap(Last(flight_track.locations).location.altitude)).ascent_rate_uncertainty

\* C20: falling reports a freefall exactly when the track is descending and
\* the last observed ascent rate is within the uncertainty of the model's
\* rate at the last altitude, above or below it.
C20_FallingWithinModel ==
    Reported
    => (IsSome(flight_report.falling) <=> (flight_report.descending /\ WithinModel))

----------------------------------------------------------------------------
(* Further properties of the track engine.                                 *)

EqualToExisting(result) ==
    \E j \in 1..Len(result.before) :
        BalloonLocation_eq(result.packet, result.before[j])

\* C24: a record equal to a record of its track is classified Duplicate and
\* counted as a duplicate, wherever that record is in the track and also when
\* it is a time-lag of another record of the track.
C24_DuplicateWins ==
    /\ \A i \in Processed :
           EqualToExisting(results[i]) => results[i].outcome = "Duplicate"
    /\ counts.duplicates
           >= Cardinality({i \in Processed : EqualToExisting(results[i])})

\* C23: a tick whose connections all answered with well-formed records
\* completes, also when a record has no altitude or when two records of one
\* track carry the same timestamp.
C23_BatchCompletes ==
    (\A i \in 1..Len(polled) : polled[i].ok) => running

\* C29: every track holds at least one location after any number of ticks,
\* so that no prediction refresh fails to take the last location of a track.
C29_TracksNonEmpty ==
    /\ \A i \in 1..Len(tracks) : tracks[i].locations # << >>
    /\ \A i \in 1..Len(predicted) :
           predicted[i].error # "locations.last().unwrap()"

\* a tick has created a track for a record and asked its prediction
C29_TrackCreated ==
    /\ \E i \in 1..Len(results) :
           /\ results[i].created
           /\ results[i].before = << >>
           /\ results[i].outcome = "pushed"
    /\ predicted # << >>
    /\ tracks # << >>

\* C22: the prediction refresh of a tick leaves the name and the locations
\* of every track as the ingestion of that tick left them, whether the
\* prediction of the track succeeded or failed.
C22_RefreshFrame ==
    [][running'
       => \E st \in {retrieve_locations(polled', tracks, start_time, end_time)} :
              /\ Len(tracks') = Len(st.tracks)
              /\ \A i \in 1..Len(tracks') :
                     /\ tracks'[i].name = st.tracks[i].name
                     /\ tracks'[i].locations = st.tracks[i].locations]_vars

\* a tick has refreshed two tracks, one with success and one with an error
C22_RefreshedBothWays ==
    /\ running
    /\ Len(predicted) = 2
    /\ \E i, j \in 1..2 :
           /\ predicted[i].kind = "Ok" /\ IsSome(tracks[i].prediction)
           /\ predicted[j].kind = "Err"
           /\ tracks[j].locations # << >>

----------------------------------------------------------------------------
(* Further properties of one query to the prediction service.              *)

\* C25: every request carries one profile selector: float_profile, with a
\* float_altitude and a stop_datetime, when the flight profile has a float
\* phase, standard_profile when it has none, descent-only or not.
C25_OneProfileSelector ==
    Sent
    => /\ \A i \in 1..Len(query_result.requests) :
              IsSome(query_result.requests[i].profile)
       /\ IF IsSome(tawhiri_query.profile.float_duration)
          THEN /\ query_result.requests[1].profile = Some("float_profile")
               /\ IsSome(query_result.requests[1].float_altitude)
               /\ IsSome(query_result.requests[1].stop_datetime)
          ELSE query_result.requests[1].profile = Some("standard_profile")

\* the service echoes, in each answer, the profile of the request it answers
\* (standard_profile when the request names none)
Faithful ==
    \A i \in 1..Len(query_result.requests) :
        Answered(service[i])
        => service[i].request
               = (IF query_result.requests[i].profile = Some("float_profile")
                  THEN "float_profile" ELSE "standard_profile")

\* C26: one call of retrieve_prediction sends at most two requests to a
\* service that echoes the profile it was asked, whatever the stages of its
\* answers: the descent-only request of the stitch is not stitched again.
C26_StitchDepthOne ==
    (Asked /\ Faithful)
    => /\ Len(query_result.requests) <= 2
       /\ query_result.kind \in {"Ok", "Err", "Panic"}

\* the descent-only request of a stitch was answered with a float stage and
\* no descent stage
C26_StitchAnsweredWithFloat ==
    /\ Asked /\ Faithful
    /\ Len(query_result.requests) = 2
    /\ Answered(service[2])
    /\ HasStage(service[2].prediction, "float")
    /\ ~HasStage(service[2].prediction, "descent")

\* C28: the stop_datetime of a float-profile request is the float start plus
\* the float duration, the float start being the one supplied or else the
\* launch time plus (float_altitude - launch altitude) / ascent_rate seconds,
\* with 0 for an unknown launch altitude.
C28_StopDatetime ==
    (Sent /\ query_result.requests[1].profile = Some("float_profile"))
    => query_result.requests[1].stop_datetime
           = Some((IF IsSome(tawhiri_query.float_start)
                   THEN Unwrap(tawhiri_query.float_start)
                   ELSE tawhiri_query.start.time
                        + Truncated(
                              Unwrap(query_result.requests[1].float_altitude)
                                  - (IF IsSome(tawhiri_query.start.altitude)
                                     THEN Unwrap(tawhiri_query.start.altitude)
                                     ELSE 0),
                              20000 * tawhiri_query.profile.ascent_rate))
                  + Unwrap(tawhiri_query.profile.float_duration))

----------------------------------------------------------------------------
(* Further properties of the flight state of one track.                    *)

Estimated == flight_report.kind = "Estimated"
Queried == flight_report.kind = "Queried"

\* C27: the estimated time to ground of a descending track is the freefall
\* model's time to ground at the last altitude when the track is in freefall,
\* and otherwise the last altitude divided by the negated last ascent rate;
\* it is None when the track is not descending or has fewer than two altitudes
C27_TimeToGround ==
    Estimated =>
        LET heights == altitudes(flight_track.locations)
            rates == ascent_rates(flight_track.locations)
            down == descending(flight_track) /\ Len(heights) > 1
        IN  /\ ~down => flight_report.time_to_ground = NoEstimate
            /\ down /\ IsSome(falling(flight_track)) =>
                   flight_report.time_to_ground
                       = SomeEstimate(time_to_ground(Last(heights)))
            /\ down /\ ~IsSome(falling(flight_track)) /\ rates # << >>
                    /\ Last(rates).num < 0 =>
                   flight_report.time_to_ground
                       = SomeEstimate(MulDiv(Last(heights) * Last(rates).den,
                                             1000, -Last(rates).num))

\* C30: the query of a track is descent-only exactly when the track is
\* descending or in freefall, unless it is not in freefall and its last
\* altitude is within the float uncertainty of the profile's float altitude
C30_DescentOnly ==
    Queried =>
        LET profile == flight_report.profile
            last_altitude == Last(flight_track.locations).location.altitude
            in_freefall == IsSome(falling(flight_track))
            at_float ==
                /\ IsSome(profile.float_altitude)
                /\ IsSome(last_altitude)
                /\ Abs(Unwrap(last_altitude) - Unwrap(profile.float_altitude))
                       <= profile.float_uncertainty
        IN  flight_report.query.descent_only
                = (/\ descending(flight_track) \/ in_freefall
                   /\ ~(~in_freefall /\ at_float))

----------------------------------------------------------------------------
(* Properties of the loop of the terminal.                                 *)

\* C21: at most one tick is in progress at any time, whether the timer or the
\* refresh key started it; a tick starts only when none is in progress, and a
\* tick ends only once its polls, its ingestion and its prediction queries
\* are done
C21_OneTickAtATime ==
    [][/\ Len(activations') <= 1
       /\ Len(activations') > Len(activations) => activations = << >>
       /\ Len(activations') < Len(activations) =>
              /\ Last(activations).phase = "predict"
              /\ Last(activations).polls_left = 0
              /\ Last(activations).predictions_left = 0]_vars

\* a refresh key pressed during the tick of the timer has started the next
\* tick, after the first one
C21_KeyTickAfterTimerTick ==
    /\ app_loop.started = << "timer", "key" >>
    /\ Len(activations) = 1
    /\ activations[1].origin = "key"
    /\ activations[1].phase = "predict"

====
